---- MODULE Spec2Model ----
(***************************************************************************)
(* Model of the edit pipeline of the Vokt VS Code extension:                *)
(*   EditBuffer        (src/src/editBuffer.ts)   per-URI debounced buffer    *)
(*   SmartDiagnostics  (src/unnamed/part_003)    orchestrator                *)
(*   ChangeFilter      (src/src/changeFilter.ts) batch classification        *)
(* The Node.js timer queue, the clock and the language client are the        *)
(* environment.  All code runs on one event loop, so every handler is one    *)
(* atomic action up to its first await.                                      *)
(***************************************************************************)
EXTENDS Integers, Sequences, FiniteSets, TLC

\* ---------------------------------------------------------------- bounds
MaxEvents == 2          \* change events the orchestrator sees in one behaviour
MaxAdds == 2            \* addEdit calls on a buffer the test suite drives
MaxTicks == 3           \* clock advances in one behaviour
TickMs == 200           \* clock granularity
Epoch == 100000         \* Date.now() when the object under study is built
MaxFailures == 6        \* change events in a behaviour that studies failures
MaxWaits == 2           \* cooldown-long advances of the clock in one behaviour
MaxChanges == 2         \* content changes in one classified batch
MaxCapacity == 3        \* the largest capacity a cache of the tests is built with
MaxLookups == 2         \* calls of getEnclosingScope in one run
MaxDepth == 3           \* nesting depth of an outline
LastLine == 10          \* the last line an outline may reach
MaxOverlap == 3         \* the most requests that wait for their answers at once
MaxLines == 3           \* lines of a document whose text is classified

\* ------------------------------------------------------ program constants
DefaultIdleMs == 400
TestIdleMs == 100
FAILURE_THRESHOLD == 3
NOTIFICATION_COOLDOWN_MS == 60000
MAX_SAFE_INTEGER == 2147483647
DEFAULT_SYMBOL_CACHE_SIZE == 50

None == "undefined"

FileA == "file:///a.ts"
FileB == "file:///b.ts"
Untitled == "untitled:Untitled-1"
URIs == {FileA, FileB, Untitled}
FileURIs == {FileA, FileB}

Scheme(uri) == IF uri = Untitled THEN "untitled" ELSE "file"

IdleMsChoices == {TestIdleMs, DefaultIdleMs}

Pos(l, c) == [line |-> l, character |-> c]
Rng(sl, sc, el, ec) == [start |-> Pos(sl, sc), end |-> Pos(el, ec)]
Change(r, k) == [range |-> r, kind |-> k]

\* The content-change batches an event may carry.  kind is the outcome of
\* classifySingleChange for that change.
BatchCode == << Change(Rng(0, 1, 1, 0), "code"), Change(Rng(0, 0, 0, 1), "whitespace") >>
BatchComment == << Change(Rng(0, 0, 0, 1), "comment") >>
Batches == {BatchCode, BatchComment}
TestBatches == {BatchCode}

\* What classifySingleChange answers for one change.
Kinds == {"code", "comment", "whitespace", "formatting"}

\* Every batch of up to MaxChanges changes, the i-th on line i, by the kinds
\* of its changes.
KindBatches ==
    UNION {{[i \in 1..n |-> Change(Rng(i, 0, i, 1), ks[i])] : ks \in [1..n -> Kinds]}
              : n \in 0..MaxChanges}

\* The keys and values the cache tests store, in the order of the alphabet,
\* and the capacities they build caches with.
KeyOrder == << "a", "b", "c", "d", "e" >>
CacheKeys == {KeyOrder[i] : i \in 1..Len(KeyOrder)}
CacheValues == {1, 10}
Capacities == 0..MaxCapacity

\* vscode.SymbolKind, the kinds the outlines are built from: two that are
\* class-like, two that are relevant and not class-like, one that is not
\* relevant.
SymbolKinds == {"Class", "Interface", "Method", "Function", "Variable"}

\* A vscode.DocumentSymbol.
Symbol(name, kind, range, children) ==
    [name |-> name, kind |-> kind, range |-> range, children |-> children]

\* The names of the symbols of an outline, by nesting level.
LevelNames == << "Outer", "Inner", "Innermost", "Local", "Block" >>

\* The symbols at level i of the outline that nests one symbol per level,
\* of the kinds given: the symbol of level i spans the lines i to
\* LastLine - i.  sib, if it names this level, puts a one-line symbol Other
\* before it, on the line above.
RECURSIVE Nest(_, _, _)
Nest(kinds, i, sib) ==
    IF i > Len(kinds) THEN << >>
    ELSE (IF sib.level = i
          THEN << Symbol("Other", sib.kind, Rng(i - 1, 0, i - 1, 0), << >>) >>
          ELSE << >>)
         \o << Symbol(LevelNames[i], kinds[i], Rng(i, 0, LastLine - i, 0),
                      Nest(kinds, i + 1, sib)) >>

\* The one-line symbols an outline may have besides its nest: none, a class
\* or a variable before the outermost symbol, a method before the second.
Siblings == {[level |-> 0, kind |-> "Class"], [level |-> 1, kind |-> "Class"],
             [level |-> 1, kind |-> "Variable"], [level |-> 2, kind |-> "Method"]}

\* The outlines the provider may return: the empty one and every nest of up
\* to MaxDepth levels.
Outlines ==
    {<< >>} \cup
    UNION {{Nest(kinds, 1, sib) : kinds \in [1..d -> SymbolKinds],
                                  sib \in {x \in Siblings : x.level <= d}}
              : d \in 1..MaxDepth}

\* Two of them: the empty outline and one function.
SmallOutlines == {<< >>, Nest(<< "Function" >>, 1, [level |-> 0, kind |-> "Class"])}

\* The cache sizes of the trackers whose cache is watched: one entry, and the
\* default.
CacheSizes == {1, DEFAULT_SYMBOL_CACHE_SIZE}

\* What vscode.executeDocumentSymbolProvider may answer: an outline,
\* undefined, or an exception.
Returns(o) == [kind |-> "symbols", symbols |-> o]
Fails == {[kind |-> "undefined", symbols |-> << >>], [kind |-> "throws", symbols |-> << >>]}

\* The positions asked for: the first character of a line, from the line
\* above the outermost symbol to the line below the last.
QueryPositions == {Pos(l, 0) : l \in 0..(MaxDepth + 1)} \cup {Pos(LastLine + 1, 0)}

\* The ranges asked for, from line to line.
QueryRanges == {Rng(a, 0, b, 0) : a \in 0..(MaxDepth + 1), b \in 0..(MaxDepth + 1)}
                   \ {Rng(a, 0, b, 0) : a \in 1..(MaxDepth + 1), b \in 0..MaxDepth}

Queries == {[op |-> "position", at |-> q] : q \in QueryPositions}
               \cup {[op |-> "range", at |-> q] : q \in QueryRanges}

\* The ranges the changes of a hand-built edit may have: two start on line 0
\* at different characters, two end on line 1 at different characters.
TestRanges == {Rng(0, 1, 1, 0), Rng(0, 0, 0, 1), Rng(1, 0, 1, 1)}

\* createMockChangeEvent(startLine, startChar, endLine, endChar)
createMockChangeEvent(r) == Change(r, "code")

\* The changes one hand-built edit may carry: up to MaxChanges of them.
TestChangeLists ==
    UNION {[1..n -> {createMockChangeEvent(r) : r \in TestRanges}] : n \in 0..MaxChanges}

\* The edit list the test builds from the change lists cs: the i-th edit
\* has version i.
TestEdits(cs) ==
    [i \in 1..Len(cs) |-> [changes |-> cs[i], timestamp |-> Epoch, version |-> i]]

\* COMMENT_PATTERNS: the C family (typescript stands for go, javascript,
\* java, rust, c and cpp, which share its patterns) and python.
PatternLanguages == {"typescript", "python"}
Languages == PatternLanguages \cup {"plaintext"}

\* The lines a document is made of.
LineShapes ==
    { << "x" >>, << "sp", "//", "x" >>,
      << "/*", "x" >>, << "x", "*/" >>, << "/*", "x", "*/" >>, << "*/", "/*" >>,
      << "q", "x" >>, << "x", "q" >> }

\* The documents of one to MaxLines lines in each language.
Documents ==
    UNION {{[languageId |-> l, lines |-> ls] : l \in Languages, ls \in [1..n -> LineShapes]}
              : n \in 1..MaxLines}

\* The texts a change inserts.
Texts ==
    { << "sp" >>, << "x" >>, << "sp", "x" >>, << "//", "x" >>,
      << "/*", "x", "*/" >>, << "#", "x" >> }

\* The changes to a document: on one of its lines, replacing the line or
\* inserted before it.
TextChanges(doc) ==
    {[line |-> n, whole |-> w, text |-> t] :
         n \in 1..Len(doc.lines), w \in BOOLEAN, t \in Texts}

Flags == {"ignoreComments", "ignoreWhitespace", "ignoreFormatting"}

\* The partial configurations that set one flag.
FlagUpdates == UNION {{[g \in {f} |-> v] : v \in BOOLEAN} : f \in Flags}

VARIABLES
    owner,          \* who built the EditBuffer: "test" or "SmartDiagnostics"
    now,            \* Date.now()
    nextEdit,       \* number of change events so far (identity of the next)
    docVersion,     \* TextDocument.version per URI
    buffer,         \* EditBuffer.buffer: Map uri -> entry
    timers,         \* EditBuffer.timers: Map uri -> timer handle
    pending,        \* the runtime's armed timeouts
    idleMs,         \* EditBuffer.idleMs
    idleCallback,   \* EditBuffer.idleCallback
    hist,           \* history, per URI: edits added, handed out and dropped
    uncaught,       \* history: exceptions that escaped a timer closure
    enabled,        \* SmartDiagnostics.config.enabled
    filter,         \* ChangeFilter.config
    client,         \* SmartDiagnostics.client: "unset", "stopped" or "running"
    stats,          \* SmartDiagnostics.stats
    consecutiveFailures,
    lastNotificationTime,
    dispatches,     \* history: the edits of every processEdits call that got
                    \* past its guards
    inflight,       \* the processEdits calls suspended at an await
    warnings,       \* history: Date.now() of every warning shown
    lastReply,      \* history: the last reply to a request, and to which
    streak,         \* history: failed replies since the last successful one
    classified,     \* the last call of ChangeFilter.classify and what it returned, if any
    mockDocument,   \* the TextDocument handed to classify, if one was built
    combined,       \* the edits and the result of the last getCombinedRange of the test
    cache,          \* LRUCache.cache: the entries in the Map's insertion order
    maxSize,        \* LRUCache.maxSize
    lastCall,       \* the last call on the cache: its arguments, the cache before it, its result
    recency,        \* the keys present, ordered by their last successful get or set
    lookups,        \* the calls of getEnclosingScope and getEnclosingScopeForRange, each with what it saw and returned
    skipped         \* history: the edits processEdits got and let go of unsent

vars == << owner, now, nextEdit, docVersion, buffer, timers, pending,
           idleMs, idleCallback, hist, uncaught,
           enabled, filter, client, stats, consecutiveFailures,
           lastNotificationTime, dispatches, inflight, warnings, lastReply,
           streak, classified,
           mockDocument,
           combined,
           cache,
           maxSize,
           lastCall,
           recency,
           lookups,
           skipped >>

\* The whole state as one record; operations are functions on it.
Cur ==
    [ owner |-> owner, now |-> now, nextEdit |-> nextEdit, docVersion |-> docVersion,
      buffer |-> buffer, timers |-> timers, pending |-> pending,
      idleMs |-> idleMs, idleCallback |-> idleCallback,
      hist |-> hist, uncaught |-> uncaught,
      enabled |-> enabled, filter |-> filter, client |-> client, stats |-> stats,
      consecutiveFailures |-> consecutiveFailures,
      lastNotificationTime |-> lastNotificationTime,
      dispatches |-> dispatches, inflight |-> inflight, warnings |-> warnings, lastReply |-> lastReply,
      streak |-> streak, classified |-> classified,
      mockDocument |-> mockDocument,
      combined |-> combined,
      cache |-> cache,
      maxSize |-> maxSize,
      lastCall |-> lastCall,
      recency |-> recency,
      lookups |-> lookups,
      skipped |-> skipped ]

\* The next state is the record s; r holds it, computed once.
Become(s) ==
    \E r \in {s} :
        /\ owner' = r.owner
        /\ now' = r.now
        /\ nextEdit' = r.nextEdit
        /\ docVersion' = r.docVersion
        /\ buffer' = r.buffer
        /\ timers' = r.timers
        /\ pending' = r.pending
        /\ idleMs' = r.idleMs
        /\ idleCallback' = r.idleCallback
        /\ hist' = r.hist
        /\ uncaught' = r.uncaught
        /\ enabled' = r.enabled
        /\ filter' = r.filter
        /\ client' = r.client
        /\ stats' = r.stats
        /\ consecutiveFailures' = r.consecutiveFailures
        /\ lastNotificationTime' = r.lastNotificationTime
        /\ dispatches' = r.dispatches
        /\ inflight' = r.inflight
        /\ warnings' = r.warnings
        /\ lastReply' = r.lastReply
        /\ streak' = r.streak
        /\ classified' = r.classified
        /\ mockDocument' = r.mockDocument
        /\ combined' = r.combined
        /\ cache' = r.cache
        /\ maxSize' = r.maxSize
        /\ lastCall' = r.lastCall
        /\ recency' = r.recency
        /\ lookups' = r.lookups
        /\ skipped' = r.skipped

\* ---------------------------------------------------------- Map helpers
EmptyMap == [k \in {} |-> None]
MapHas(m, k) == k \in DOMAIN m
MapSet(m, k, v) == [x \in (DOMAIN m) \cup {k} |-> IF x = k THEN v ELSE m[x]]
MapDelete(m, k) == [x \in (DOMAIN m) \ {k} |-> m[x]]

\* ------------------------------------------------------------ EditBuffer

\* One entry of the history of a URI: ev is "add" (an edit entered the
\* buffer), "idle" (the idle callback got edits), "flush", "flushAll" (edits
\* were returned) or "dispose" (edits were dropped).
Ids(edits) == [i \in 1..Len(edits) |-> edits[i].id]

Ev(ev, edits, reentered, threw) ==
    [ev |-> ev, ids |-> Ids(edits), reentered |-> reentered, threw |-> threw]

hasBufferedEdits(s, uri) ==
    /\ MapHas(s.buffer, uri)
    /\ Len(s.buffer[uri].edits) > 0

getBufferedEditCount(s, uri) ==
    IF MapHas(s.buffer, uri) THEN Len(s.buffer[uri].edits) ELSE 0

setIdleMs(s, ms) == [s EXCEPT !.idleMs = ms]

onIdle(s, callback) == [s EXCEPT !.idleCallback = callback]

\* cancelTimer without clearTimeout: the map forgets the handle of a timeout
\* that stays armed.
cancelTimer_leaves_armed(s, uri) ==
    IF MapHas(s.timers, uri)
    THEN [s EXCEPT !.timers = MapDelete(@, uri)]
    ELSE s

\* clearTimeout disarms the timeout in the runtime; the map forgets the handle.
cancelTimer(s, uri) ==
    IF MapHas(s.timers, uri)
    THEN [s EXCEPT !.pending = {t \in @ : t.id # s.timers[uri]},
                   !.timers = MapDelete(@, uri)]
    ELSE s

\* resetTimer without its cancelTimer call: the earlier timeout stays armed.
resetTimer_nocancel(s, uri, id) ==
    [s EXCEPT !.pending = @ \cup {[id |-> id, uri |-> uri,
                                   due |-> s.now + s.idleMs, delay |-> s.idleMs]},
              !.timers = MapSet(@, uri, id)]

\* setTimeout(closure, this.idleMs); the handle is named after the edit that
\* armed it.
resetTimer(s, uri, id) ==
    LET c == cancelTimer(s, uri)
    IN  [c EXCEPT !.pending = @ \cup {[id |-> id, uri |-> uri,
                                       due |-> c.now + c.idleMs, delay |-> c.idleMs]},
                  !.timers = MapSet(@, uri, id)]

\* addEdit that starts a new entry on every call instead of appending.
addEdit_overwrites(s, uri, changes) ==
    LET id == s.nextEdit + 1
        edit == [id |-> id, changes |-> changes, timestamp |-> s.now,
                 version |-> s.docVersion[uri]]
        s1 == [s EXCEPT !.nextEdit = id,
                        !.buffer = MapSet(@, uri, [document |-> uri,
                                                   edits |-> << edit >>]),
                        !.hist[uri] = Append(@, Ev("add", << edit >>, 0, FALSE))]
    IN  resetTimer(s1, uri, id)

addEdit(s, uri, changes) ==
    LET id == s.nextEdit + 1
        edit == [id |-> id, changes |-> changes, timestamp |-> s.now,
                 version |-> s.docVersion[uri]]
        old == IF MapHas(s.buffer, uri) THEN s.buffer[uri].edits ELSE << >>
        s1 == [s EXCEPT !.nextEdit = id,
                        !.buffer = MapSet(@, uri, [document |-> uri,
                                                   edits |-> Append(old, edit)]),
                        !.hist[uri] = Append(@, Ev("add", << edit >>, 0, FALSE))]
    IN  resetTimer(s1, uri, id)

\* flush without its cancelTimer call.
flush_keeps_timer(s, uri) ==
    LET found == MapHas(s.buffer, uri)
    IN  [state |-> [s EXCEPT !.buffer = MapDelete(@, uri),
                             !.hist[uri] = IF found
                                           THEN Append(@, Ev("flush", s.buffer[uri].edits,
                                                             0, FALSE))
                                           ELSE @],
         result |-> IF found THEN MapSet(EmptyMap, uri, s.buffer[uri]) ELSE EmptyMap]

\* flush that cancels the timeouts of every URI.
flush_cancels_all(s, uri) ==
    LET c == [s EXCEPT !.pending = {t \in @ : \A u \in DOMAIN s.timers :
                                                 s.timers[u] # t.id},
                       !.timers = EmptyMap]
        found == MapHas(c.buffer, uri)
    IN  [state |-> [c EXCEPT !.buffer = MapDelete(@, uri),
                             !.hist[uri] = IF found
                                           THEN Append(@, Ev("flush", c.buffer[uri].edits,
                                                             0, FALSE))
                                           ELSE @],
         result |-> IF found THEN MapSet(EmptyMap, uri, c.buffer[uri]) ELSE EmptyMap]

\* The result is the state after the call and the Map the call returns: the
\* entry under its URI, or the empty Map for undefined.  What is returned is
\* entered in the history.
flush(s, uri) ==
    LET c == cancelTimer(s, uri)
        found == MapHas(c.buffer, uri)
    IN  [state |-> [c EXCEPT !.buffer = MapDelete(@, uri),
                             !.hist[uri] = IF found
                                           THEN Append(@, Ev("flush", c.buffer[uri].edits,
                                                             0, FALSE))
                                           ELSE @],
         result |-> IF found THEN MapSet(EmptyMap, uri, c.buffer[uri]) ELSE EmptyMap]

RECURSIVE cancelAll(_, _)
cancelAll(s, uris) ==
    IF uris = {} THEN s
    ELSE LET u == CHOOSE x \in uris : TRUE
         IN  cancelAll(cancelTimer(s, u), uris \ {u})

\* The history after every entry of the map was handed out or dropped.
Removed(h, ev, entries) ==
    [u \in DOMAIN h |-> IF MapHas(entries, u)
                        THEN Append(h[u], Ev(ev, entries[u].edits, 0, FALSE))
                        ELSE h[u]]

\* flushAll that returns the entries without clearing the buffer.
flushAll_keeps_entries(s) ==
    LET c == cancelAll(s, DOMAIN s.timers)
    IN  [state |-> [c EXCEPT !.hist = Removed(@, "flushAll", c.buffer)],
         result |-> c.buffer]

flushAll(s) ==
    LET c == cancelAll(s, DOMAIN s.timers)
    IN  [state |-> [c EXCEPT !.buffer = EmptyMap,
                             !.hist = Removed(@, "flushAll", c.buffer)],
         result |-> c.buffer]

\* dispose that cancels the timers but leaves the entries in the buffer.
dispose_keeps_buffer(s) ==
    [s EXCEPT !.pending = {t \in @ : \A u \in DOMAIN s.timers : s.timers[u] # t.id},
              !.timers = EmptyMap,
              !.hist = Removed(@, "dispose", s.buffer)]

\* clearTimeout for every handle in the map, then both maps are cleared.
dispose(s) ==
    [s EXCEPT !.pending = {t \in @ : \A u \in DOMAIN s.timers : s.timers[u] # t.id},
              !.timers = EmptyMap,
              !.buffer = EmptyMap,
              !.hist = Removed(@, "dispose", s.buffer)]

RECURSIVE AllRanges(_)
AllRanges(edits) ==
    IF edits = << >> THEN << >>
    ELSE [i \in 1..Len(Head(edits).changes) |-> Head(edits).changes[i].range]
         \o AllRanges(Tail(edits))

StartsBefore(r, line, char) ==
    \/ r.start.line < line
    \/ (r.start.line = line /\ r.start.character < char)

EndsAfter(r, line, char) ==
    \/ r.end.line > line
    \/ (r.end.line = line /\ r.end.character > char)

\* The loop body comparing lines only, without the character tie-break.
CombineStep_lines_only(acc, r) ==
    LET a1 == IF r.start.line < acc.start.line
              THEN [acc EXCEPT !.start = r.start] ELSE acc
    IN  IF r.end.line > a1.end.line
        THEN [a1 EXCEPT !.end = r.end] ELSE a1

\* One iteration of the loop body of getCombinedRange over accumulator acc.
CombineStep(acc, r) ==
    LET a1 == IF StartsBefore(r, acc.start.line, acc.start.character)
              THEN [acc EXCEPT !.start = r.start] ELSE acc
    IN  IF EndsAfter(r, a1.end.line, a1.end.character)
        THEN [a1 EXCEPT !.end = r.end] ELSE a1

RECURSIVE CombineLoop(_, _)
CombineLoop(acc, ranges) ==
    IF ranges = << >> THEN acc
    ELSE CombineLoop(CombineStep(acc, Head(ranges)), Tail(ranges))

\* getCombinedRange without its check for edits that carry no change.
getCombinedRange_unchecked(edits) ==
    IF Len(edits) = 0 THEN Rng(0, 0, 0, 0)
    ELSE CombineLoop(Rng(MAX_SAFE_INTEGER, MAX_SAFE_INTEGER, 0, 0), AllRanges(edits))

getCombinedRange(edits) ==
    IF Len(edits) = 0 THEN Rng(0, 0, 0, 0)
    ELSE LET acc == CombineLoop(Rng(MAX_SAFE_INTEGER, MAX_SAFE_INTEGER, 0, 0),
                                AllRanges(edits))
         IN  IF acc.start.line = MAX_SAFE_INTEGER THEN Rng(0, 0, 0, 0) ELSE acc

\* ------------------------------------------------------------- LRUCache

\* A Map in insertion order is a sequence of entries with distinct keys.
Entry(k, v) == [key |-> k, value |-> v]
KeysOf(c) == {c[i].key : i \in 1..Len(c)}

\* Map.get: a sequence of the value, empty for undefined.
OrderedGet(c, k) ==
    IF k \in KeysOf(c) THEN << (CHOOSE e \in {c[i] : i \in 1..Len(c)} : e.key = k).value >>
    ELSE << >>

\* Map.delete
OrderedDelete(c, k) == SelectSeq(c, LAMBDA e : e.key # k)

\* Map.set: a present key keeps its place, a new one goes last.
OrderedSet(c, k, v) ==
    IF k \in KeysOf(c)
    THEN [i \in 1..Len(c) |-> IF c[i].key = k THEN Entry(k, v) ELSE c[i]]
    ELSE Append(c, Entry(k, v))

\* LRUCache.get: the cache after the call and the value, if any.
lruGet(c, key) ==
    LET value == OrderedGet(c, key)
    IN  [cache |-> IF value # << >>
                   THEN OrderedSet(OrderedDelete(c, key), key, value[1])
                   ELSE c,
         value |-> value]

\* LRUCache.set that evicts the newest entry.
lruSet_evicts_last(c, max, key, value) ==
    LET c1 == IF key \in KeysOf(c) THEN OrderedDelete(c, key)
              ELSE IF Len(c) >= max /\ c # << >>
                   THEN OrderedDelete(c, c[Len(c)].key)
                   ELSE c
    IN  OrderedSet(c1, key, value)

\* LRUCache.set
lruSet(c, max, key, value) ==
    LET c1 == IF key \in KeysOf(c) THEN OrderedDelete(c, key)
              ELSE IF Len(c) >= max
                   THEN \* keys().next().value is undefined for an empty Map
                        IF c # << >> THEN OrderedDelete(c, Head(c).key) ELSE c
                   ELSE c
    IN  OrderedSet(c1, key, value)

lruHas(c, key) == key \in KeysOf(c)
lruDelete(c, key) == OrderedDelete(c, key)
lruClear(c) == << >>
lruSize(c) == Len(c)

\* --------------------------------------------------------- ScopeTracker

\* Position p is at or before position q.
isBeforeOrEqual(p, q) ==
    p.line < q.line \/ (p.line = q.line /\ p.character <= q.character)

\* vscode.Range.contains, of a position and of a range
containsPosition(r, p) == isBeforeOrEqual(r.start, p) /\ isBeforeOrEqual(p, r.end)
containsRange(r, q) == isBeforeOrEqual(r.start, q.start) /\ isBeforeOrEqual(q.end, r.end)

\* isRelevantSymbol that takes every kind.
isRelevantSymbol_any_kind(symbol) == TRUE

isRelevantSymbol(symbol) ==
    symbol.kind \in {"Function", "Method", "Class", "Constructor", "Module",
                     "Namespace", "Interface", "Struct"}

isClassLike(symbol) == symbol.kind \in {"Class", "Struct", "Interface"}

mapSymbolKind(kind) ==
    CASE kind = "Function" -> "function"
      [] kind \in {"Method", "Constructor"} -> "method"
      [] kind \in {"Class", "Struct", "Interface"} -> "class"
      [] kind \in {"Module", "Namespace"} -> "module"
      [] OTHER -> "unknown"

\* findEnclosingSymbol that returns a containing symbol of relevant kind
\* without looking at its children.
RECURSIVE findEnclosingSymbol_parent_first(_, _)
findEnclosingSymbol_parent_first(symbols, position) ==
    IF symbols = << >> THEN << >>
    ELSE LET symbol == Head(symbols)
             childMatch == IF Len(symbol.children) > 0
                           THEN findEnclosingSymbol_parent_first(symbol.children, position)
                           ELSE << >>
         IN  IF containsPosition(symbol.range, position) /\ isRelevantSymbol(symbol)
             THEN << symbol >>
             ELSE IF containsPosition(symbol.range, position) /\ childMatch # << >>
             THEN childMatch
             ELSE findEnclosingSymbol_parent_first(Tail(symbols), position)

\* findEnclosingSymbol: a sequence of the symbol found, empty for undefined.
RECURSIVE findEnclosingSymbol(_, _)
findEnclosingSymbol(symbols, position) ==
    IF symbols = << >> THEN << >>
    ELSE LET symbol == Head(symbols)
             childMatch == IF Len(symbol.children) > 0
                           THEN findEnclosingSymbol(symbol.children, position)
                           ELSE << >>
         IN  IF containsPosition(symbol.range, position) /\ childMatch # << >>
             THEN childMatch
             ELSE IF containsPosition(symbol.range, position) /\ isRelevantSymbol(symbol)
             THEN << symbol >>
             ELSE findEnclosingSymbol(Tail(symbols), position)

\* findEnclosingSymbolForRange
RECURSIVE findEnclosingSymbolForRange(_, _)
findEnclosingSymbolForRange(symbols, range) ==
    IF symbols = << >> THEN << >>
    ELSE LET symbol == Head(symbols)
             childMatch == IF Len(symbol.children) > 0
                           THEN findEnclosingSymbolForRange(symbol.children, range)
                           ELSE << >>
         IN  IF containsRange(symbol.range, range) /\ childMatch # << >>
             THEN childMatch
             ELSE IF containsRange(symbol.range, range) /\ isRelevantSymbol(symbol)
             THEN << symbol >>
             ELSE findEnclosingSymbolForRange(Tail(symbols), range)

\* findParentClassName: a sequence of the name found, empty for undefined.
RECURSIVE findParentClassName(_, _)
findParentClassName(method, symbols) ==
    IF symbols = << >> THEN << >>
    ELSE LET symbol == Head(symbols)
             nested == IF Len(symbol.children) > 0
                       THEN findParentClassName(method, symbol.children)
                       ELSE << >>
         IN  IF isClassLike(symbol) /\ containsRange(symbol.range, method.range)
             THEN << symbol.name >>
             ELSE IF nested # << >> THEN nested
             ELSE findParentClassName(method, Tail(symbols))

symbolToEditScope(symbol, allSymbols) ==
    LET kind == mapSymbolKind(symbol.kind)
    IN  [name |-> symbol.name,
         kind |-> kind,
         className |-> IF kind = "method" THEN findParentClassName(symbol, allSymbols)
                       ELSE << >>,
         range |-> symbol.range,
         symbolKind |-> symbol.kind]

\* The rest of getEnclosingScope and getEnclosingScopeForRange once
\* getDocumentSymbols has answered symbols (a sequence of the outline, empty
\* for undefined): a sequence of the EditScope, empty for undefined.
scopeOf(symbols, query) ==
    IF symbols = << >> \/ Len(symbols[1]) = 0 THEN << >>
    ELSE LET enclosing == IF query.op = "position"
                          THEN findEnclosingSymbol(symbols[1], query.at)
                          ELSE findEnclosingSymbolForRange(symbols[1], query.at)
         IN  IF enclosing = << >> THEN << >>
             ELSE << symbolToEditScope(enclosing[1], symbols[1]) >>

\* The test of getDocumentSymbols for using what the cache holds.
isCached_any_version(cached, version) == cached # << >>

isCached(cached, version) == cached # << >> /\ cached[1].version = version

\* getEnclosingScope(document, position) and getEnclosingScopeForRange(
\* document, range) up to the answer of the outline provider: the call is
\* over at once when the cache holds the outline of this version, and waits
\* for the provider otherwise.
getEnclosingScope(s, uri, query) ==
    LET got == lruGet(s.cache, uri)
        cached == got.value
        hit == isCached(cached, s.docVersion[uri])
        symbols == IF hit THEN << cached[1].symbols >> ELSE << >>
    IN  [s EXCEPT !.cache = got.cache,
                  !.lookups = Append(@,
                      [uri |-> uri, query |-> query, version |-> s.docVersion[uri],
                       cached |-> cached, called |-> ~hit,
                       stage |-> IF hit THEN "done" ELSE "awaiting",
                       outcome |-> [kind |-> "none", symbols |-> << >>],
                       stored |-> << >>, tag |-> 0,
                       symbols |-> symbols,
                       scope |-> scopeOf(symbols, query)])]

\* getDocumentSymbols without its try/catch: the provider's exception leaves
\* the call.
onSymbols_rethrows(s, i, outcome) ==
    LET call == s.lookups[i]
        uri == call.uri
        after == IF outcome.kind = "symbols"
                 THEN lruSet(s.cache, s.maxSize, uri,
                             [symbols |-> outcome.symbols, version |-> s.docVersion[uri]])
                 ELSE s.cache
        symbols == IF outcome.kind = "symbols" THEN << outcome.symbols >> ELSE << >>
    IN  [s EXCEPT !.cache = after,
                  !.lookups[i] = [call EXCEPT !.stage = IF outcome.kind = "throws"
                                                        THEN "rejected" ELSE "done",
                                              !.outcome = outcome,
                                              !.stored = OrderedGet(after, uri),
                                              !.tag = s.docVersion[uri],
                                              !.symbols = symbols,
                                              !.scope = scopeOf(symbols, call.query)]]

\* The provider answers the i-th call: getDocumentSymbols stores a returned
\* outline under the version the document has now, and the call goes on.
onSymbols(s, i, outcome) ==
    LET call == s.lookups[i]
        uri == call.uri
        after == IF outcome.kind = "symbols"
                 THEN lruSet(s.cache, s.maxSize, uri,
                             [symbols |-> outcome.symbols, version |-> s.docVersion[uri]])
                 ELSE s.cache
        symbols == IF outcome.kind = "symbols" THEN << outcome.symbols >> ELSE << >>
    IN  [s EXCEPT !.cache = after,
                  !.lookups[i] = [call EXCEPT !.stage = "done",
                                              !.outcome = outcome,
                                              !.stored = OrderedGet(after, uri),
                                              !.tag = s.docVersion[uri],
                                              !.symbols = symbols,
                                              !.scope = scopeOf(symbols, call.query)]]

\* clearCache(uri) and clearCache()
clearCache(s, uri) ==
    [s EXCEPT !.cache = IF uri # None THEN lruDelete(@, uri) ELSE lruClear(@)]

\* ---------------------------------------------------------- ChangeFilter

DefaultFilter == [ignoreComments |-> TRUE, ignoreWhitespace |-> TRUE,
                  ignoreFormatting |-> TRUE]

\* { ...a, ...b }
Merge(a, b) ==
    [k \in (DOMAIN a) \cup (DOMAIN b) |-> IF k \in DOMAIN b THEN b[k] ELSE a[k]]

filterCombinedRange(changes) ==
    IF Len(changes) = 0 THEN Rng(0, 0, 0, 0)
    ELSE CombineLoop(changes[1].range, [i \in 1..Len(changes) |-> changes[i].range])

\* ChangeFilter.updateConfig
filterUpdateConfig(f, config) == Merge(f, config)

\* Text is a sequence of tokens: "sp" is white space, "x" a word of code, "q"
\* a triple quote, the others stand for themselves.

\* String.trim()
TrimStart(text) ==
    IF \E i \in 1..Len(text) : text[i] # "sp"
    THEN SubSeq(text, CHOOSE i \in 1..Len(text) :
                          text[i] # "sp" /\ \A j \in 1..(i - 1) : text[j] = "sp",
                Len(text))
    ELSE << >>

TrimEnd(text) ==
    IF \E i \in 1..Len(text) : text[i] # "sp"
    THEN SubSeq(text, 1, CHOOSE i \in 1..Len(text) :
                             text[i] # "sp" /\ \A j \in (i + 1)..Len(text) : text[j] = "sp")
    ELSE << >>

Trim(text) == TrimEnd(TrimStart(text))

\* text.replace(/\s+/g, '')
NotSpace(t) == t # "sp"
Normalized(text) == SelectSeq(text, NotSpace)

\* patterns.line.test(text)
lineTest(languageId, text) ==
    /\ TrimStart(text) # << >>
    /\ TrimStart(text)[1] = (IF languageId = "python" THEN "#" ELSE "//")

\* text.search(patterns.blockStart), counted from 1; 0 for no match.  The
\* python pattern is anchored and takes the leading white space with it.
blockStartSearch(languageId, text) ==
    IF languageId = "python"
    THEN IF TrimStart(text) # << >> /\ TrimStart(text)[1] = "q" THEN 1 ELSE 0
    ELSE IF \E i \in 1..Len(text) : text[i] = "/*"
         THEN CHOOSE i \in 1..Len(text) :
                  text[i] = "/*" /\ \A j \in 1..(i - 1) : text[j] # "/*"
         ELSE 0

\* patterns.blockEnd.test(text)
blockEndTest(languageId, text) ==
    IF languageId = "python"
    THEN TrimEnd(text) # << >> /\ TrimEnd(text)[Len(TrimEnd(text))] = "q"
    ELSE \E i \in 1..Len(text) : text[i] = "*/"

isWhitespaceOnly(oldText, newText) ==
    LET oldTrimmed == Trim(oldText)
        newTrimmed == Trim(newText)
    IN  IF oldTrimmed = << >> /\ newTrimmed = << >> THEN TRUE
        ELSE IF oldTrimmed = << >> \/ newTrimmed = << >>
        THEN oldTrimmed = << >> /\ newTrimmed = << >>
        ELSE FALSE

isFormattingOnly(oldText, newText) ==
    Normalized(oldText) = Normalized(newText) /\ oldText # newText

\* The backward loop without its return at a closer above the start line.
RECURSIVE blockScan_ignores_closers(_, _, _)
blockScan_ignores_closers(doc, start, i) ==
    IF i < 1 THEN FALSE
    ELSE LET lineText == doc.lines[i]
             at == blockStartSearch(doc.languageId, lineText)
         IN  IF at > 0 /\ ~blockEndTest(doc.languageId,
                                        SubSeq(lineText, at, Len(lineText)))
             THEN TRUE
             ELSE blockScan_ignores_closers(doc, start, i - 1)

\* The backward loop of isInComment from line i, for a change that starts on
\* line start.  Lines are counted from 1.
RECURSIVE blockScan(_, _, _)
blockScan(doc, start, i) ==
    IF i < 1 THEN FALSE
    ELSE LET lineText == doc.lines[i]
             at == blockStartSearch(doc.languageId, lineText)
         IN  IF i < start /\ blockEndTest(doc.languageId, lineText) THEN FALSE
             ELSE IF at > 0 /\ ~blockEndTest(doc.languageId,
                                             SubSeq(lineText, at, Len(lineText)))
             THEN ~\E j \in (i + 1)..start : blockEndTest(doc.languageId, doc.lines[j])
             ELSE blockScan(doc, start, i - 1)

isInComment(doc, start) ==
    IF doc.languageId \notin PatternLanguages THEN FALSE
    ELSE IF lineTest(doc.languageId, doc.lines[start]) THEN TRUE
    ELSE blockScan(doc, start, start)

\* isCommentText without its return for a language that has no patterns.
isCommentText_any_language(languageId, text) ==
    LET trimmed == Trim(text)
    IN  IF trimmed = << >> THEN FALSE
        ELSE IF lineTest(languageId, trimmed) THEN TRUE
        ELSE IF blockStartSearch(languageId, trimmed) > 0
                /\ blockEndTest(languageId, trimmed) THEN TRUE
        ELSE FALSE

isCommentText(languageId, text) ==
    IF languageId \notin PatternLanguages THEN FALSE
    ELSE LET trimmed == Trim(text)
         IN  IF trimmed = << >> THEN FALSE
             ELSE IF lineTest(languageId, trimmed) THEN TRUE
             ELSE IF blockStartSearch(languageId, trimmed) > 0
                     /\ blockEndTest(languageId, trimmed) THEN TRUE
             ELSE FALSE

\* document.getText(change.range): a change replaces its whole line or is
\* inserted at the start of it.
getOldText(doc, change) == IF change.whole THEN doc.lines[change.line] ELSE << >>

classifySingleChange(doc, change) ==
    LET newText == change.text
        oldText == getOldText(doc, change)
    IN  IF isWhitespaceOnly(oldText, newText) THEN "whitespace"
        ELSE IF isFormattingOnly(oldText, newText) THEN "formatting"
        ELSE IF isInComment(doc, change.line) THEN "comment"
        ELSE IF isCommentText(doc.languageId, newText) THEN "comment"
        ELSE "code"

\* change.range
rangeOf(doc, change) ==
    Rng(change.line - 1, 0, change.line - 1,
        IF change.whole THEN Len(doc.lines[change.line]) ELSE 0)

\* classify with the test for a code change moved behind the other tests.
classify_code_last(f, changes) ==
    IF Len(changes) = 0
    THEN [isSignificant |-> FALSE, changeType |-> "whitespace",
          affectedRange |-> Rng(0, 0, 0, 0)]
    ELSE
      LET has(k) == \E i \in 1..Len(changes) : changes[i].kind = k
          hasCode == has("code")
          hasComment == has("comment")
          hasWhitespace == has("whitespace")
          hasFormatting == has("formatting")
          verdict ==
            IF hasComment /\ ~hasWhitespace /\ ~hasFormatting /\ ~hasCode
            THEN << "comment", ~f.ignoreComments >>
            ELSE IF hasWhitespace /\ ~hasComment /\ ~hasFormatting /\ ~hasCode
            THEN << "whitespace", ~f.ignoreWhitespace >>
            ELSE IF hasFormatting
            THEN << "formatting", ~f.ignoreFormatting >>
            ELSE IF hasCode
            THEN << IF hasComment \/ hasWhitespace THEN "mixed" ELSE "code", TRUE >>
            ELSE << "mixed", TRUE >>
      IN  [isSignificant |-> verdict[2], changeType |-> verdict[1],
           affectedRange |-> filterCombinedRange(changes)]

\* classify that reads ignoreFormatting for a whitespace batch.
classify_whitespace_as_formatting(f, changes) ==
    IF Len(changes) = 0
    THEN [isSignificant |-> FALSE, changeType |-> "whitespace",
          affectedRange |-> Rng(0, 0, 0, 0)]
    ELSE
      LET has(k) == \E i \in 1..Len(changes) : changes[i].kind = k
          hasCode == has("code")
          hasComment == has("comment")
          hasWhitespace == has("whitespace")
          hasFormatting == has("formatting")
          verdict ==
            IF hasCode
            THEN << IF hasComment \/ hasWhitespace THEN "mixed" ELSE "code", TRUE >>
            ELSE IF hasComment /\ ~hasWhitespace /\ ~hasFormatting
            THEN << "comment", ~f.ignoreComments >>
            ELSE IF hasWhitespace /\ ~hasComment /\ ~hasFormatting
            THEN << "whitespace", ~f.ignoreFormatting >>
            ELSE IF hasFormatting
            THEN << "formatting", ~f.ignoreFormatting >>
            ELSE << "mixed", TRUE >>
      IN  [isSignificant |-> verdict[2], changeType |-> verdict[1],
           affectedRange |-> filterCombinedRange(changes)]

classify(f, changes) ==
    IF Len(changes) = 0
    THEN [isSignificant |-> FALSE, changeType |-> "whitespace",
          affectedRange |-> Rng(0, 0, 0, 0)]
    ELSE
      LET has(k) == \E i \in 1..Len(changes) : changes[i].kind = k
          hasCode == has("code")
          hasComment == has("comment")
          hasWhitespace == has("whitespace")
          hasFormatting == has("formatting")
          verdict ==
            IF hasCode
            THEN << IF hasComment \/ hasWhitespace THEN "mixed" ELSE "code", TRUE >>
            ELSE IF hasComment /\ ~hasWhitespace /\ ~hasFormatting
            THEN << "comment", ~f.ignoreComments >>
            ELSE IF hasWhitespace /\ ~hasComment /\ ~hasFormatting
            THEN << "whitespace", ~f.ignoreWhitespace >>
            ELSE IF hasFormatting
            THEN << "formatting", ~f.ignoreFormatting >>
            ELSE << "mixed", TRUE >>
      IN  [isSignificant |-> verdict[2], changeType |-> verdict[1],
           affectedRange |-> filterCombinedRange(changes)]

\* ------------------------------------------------------ SmartDiagnostics

\* handleLspFailure that compares the count with > instead of >=.
handleLspFailure_after_threshold(s) ==
    LET n == s.consecutiveFailures + 1
    IN  IF n > FAILURE_THRESHOLD
        THEN IF s.now - s.lastNotificationTime > NOTIFICATION_COOLDOWN_MS
             THEN [s EXCEPT !.lastNotificationTime = s.now,
                            !.warnings = Append(@, s.now),
                            !.consecutiveFailures = 0]
             ELSE [s EXCEPT !.consecutiveFailures = 0]
        ELSE [s EXCEPT !.consecutiveFailures = n]

\* handleLspFailure that resets the count only when it shows the warning.
handleLspFailure_resets_when_shown(s) ==
    LET n == s.consecutiveFailures + 1
    IN  IF n >= FAILURE_THRESHOLD
        THEN IF s.now - s.lastNotificationTime > NOTIFICATION_COOLDOWN_MS
             THEN [s EXCEPT !.lastNotificationTime = s.now,
                            !.warnings = Append(@, s.now),
                            !.consecutiveFailures = 0]
             ELSE [s EXCEPT !.consecutiveFailures = n]
        ELSE [s EXCEPT !.consecutiveFailures = n]

\* handleLspFailure that shows the warning at every breach of the threshold.
handleLspFailure_no_cooldown(s) ==
    LET n == s.consecutiveFailures + 1
    IN  IF n >= FAILURE_THRESHOLD
        THEN [s EXCEPT !.lastNotificationTime = s.now,
                       !.warnings = Append(@, s.now),
                       !.consecutiveFailures = 0]
        ELSE [s EXCEPT !.consecutiveFailures = n]

handleLspFailure(s) ==
    LET n == s.consecutiveFailures + 1
    IN  IF n >= FAILURE_THRESHOLD
        THEN IF s.now - s.lastNotificationTime > NOTIFICATION_COOLDOWN_MS
             THEN [s EXCEPT !.lastNotificationTime = s.now,
                            !.warnings = Append(@, s.now),
                            !.consecutiveFailures = 0]
             ELSE [s EXCEPT !.consecutiveFailures = 0]
        ELSE [s EXCEPT !.consecutiveFailures = n]

\* processEdits without its test of the client.
processEdits_ignores_client(s, uri, document, edits) ==
    IF Len(edits) = 0 THEN s
    ELSE [s EXCEPT !.stats.sentToLsp = @ + 1,
                   !.dispatches = Append(@, Ids(edits)),
                   !.inflight = MapSet(@, Len(s.dispatches) + 1,
                                       [document |-> document,
                                        ranges |-> AllRanges(edits),
                                        affectedRange |-> getCombinedRange(edits),
                                        stage |-> "scope", scope |-> None,
                                        version |-> 0])]

\* processEdits that puts the edits back into the buffer when the client is
\* not running.
processEdits_keeps_for_later(s, uri, document, edits) ==
    IF s.client # "running"
    THEN [s EXCEPT !.skipped = @ \cup {edits[k].id : k \in 1..Len(edits)},
                   !.buffer = MapSet(@, uri, [document |-> document, edits |-> edits])]
    ELSE IF Len(edits) = 0 THEN s
    ELSE [s EXCEPT !.stats.sentToLsp = @ + 1,
                   !.dispatches = Append(@, Ids(edits)),
                   !.inflight = MapSet(@, Len(s.dispatches) + 1,
                                       [document |-> document,
                                        ranges |-> AllRanges(edits),
                                        affectedRange |-> getCombinedRange(edits),
                                        stage |-> "scope", scope |-> None,
                                        version |-> 0])]

\* processEdits that gives up while an earlier call of it is suspended.
processEdits_one_at_a_time(s, uri, document, edits) ==
    IF s.client # "running"
    THEN [s EXCEPT !.skipped = @ \cup {edits[k].id : k \in 1..Len(edits)}]
    ELSE IF Len(edits) = 0 THEN s
    ELSE IF s.inflight # EmptyMap THEN s
    ELSE [s EXCEPT !.stats.sentToLsp = @ + 1,
                   !.dispatches = Append(@, Ids(edits)),
                   !.inflight = MapSet(@, Len(s.dispatches) + 1,
                                       [document |-> document,
                                        ranges |-> AllRanges(edits),
                                        affectedRange |-> getCombinedRange(edits),
                                        stage |-> "scope", scope |-> None,
                                        version |-> 0])]

\* processEdits up to its first await: the guards, the counter and the
\* combined range.  The suspended call is s.inflight[i], i its index in
\* s.dispatches; it keeps the change ranges of its edits.  The edits of a
\* call that returns at the test of the client are entered in s.skipped.
processEdits(s, uri, document, edits) ==
    IF s.client # "running"
    THEN [s EXCEPT !.skipped = @ \cup {edits[k].id : k \in 1..Len(edits)}]
    ELSE IF Len(edits) = 0 THEN s
    ELSE [s EXCEPT !.stats.sentToLsp = @ + 1,
                   !.dispatches = Append(@, Ids(edits)),
                   !.inflight = MapSet(@, Len(s.dispatches) + 1,
                                       [document |-> document,
                                        ranges |-> AllRanges(edits),
                                        affectedRange |-> getCombinedRange(edits),
                                        stage |-> "scope", scope |-> None,
                                        version |-> 0])]

\* sendToLSP up to the await of sendRequest: the request goes out with the
\* document's version at this moment.
sendToLSP(s, i, scope) ==
    IF s.client = "unset"
    THEN [s EXCEPT !.inflight = MapDelete(@, i)]
    ELSE [s EXCEPT !.inflight[i].stage = "request",
                   !.inflight[i].scope = scope,
                   !.inflight[i].version = s.docVersion[s.inflight[i].document]]

\* The success path without the reset of the failure count.
requestResolved_keeps_count(s, i) ==
    [s EXCEPT !.inflight = MapDelete(@, i),
              !.lastReply = [kind |-> "ok", before |-> s.consecutiveFailures,
                             index |-> i],
              !.streak = 0]

\* The success path that resets the count only for the reply to the newest
\* request answered so far.
requestResolved_in_issue_order(s, i) ==
    [s EXCEPT !.inflight = MapDelete(@, i),
              !.consecutiveFailures = IF i > s.lastReply.index THEN 0 ELSE @,
              !.lastReply = [kind |-> "ok", before |-> s.consecutiveFailures,
                             index |-> i],
              !.streak = 0]

requestResolved(s, i) ==
    [s EXCEPT !.inflight = MapDelete(@, i),
              !.consecutiveFailures = 0,
              !.lastReply = [kind |-> "ok", before |-> s.consecutiveFailures,
                             index |-> i],
              !.streak = 0]

requestRejected(s, i) ==
    handleLspFailure([s EXCEPT !.inflight = MapDelete(@, i),
                               !.lastReply = [kind |-> "failed",
                                              before |-> s.consecutiveFailures,
                                              index |-> i],
                               !.streak = @ + 1])

\* onDocumentChange that counts the event before its two early returns.
onDocumentChange_counts_first(s, uri, changes) ==
    LET s1 == [s EXCEPT !.stats.totalChanges = @ + 1]
        classification == classify(s1.filter, changes)
    IN  IF ~s.enabled THEN s1
        ELSE IF Scheme(uri) # "file" THEN s1
        ELSE IF ~classification.isSignificant
             THEN [s1 EXCEPT !.stats.filteredOut = @ + 1]
             ELSE addEdit(s1, uri, changes)

\* onDocumentChange without totalChanges++.
onDocumentChange_uncounted(s, uri, changes) ==
    IF ~s.enabled THEN s
    ELSE IF Scheme(uri) # "file" THEN s
    ELSE LET classification == classify(s.filter, changes)
         IN  IF ~classification.isSignificant
             THEN [s EXCEPT !.stats.filteredOut = @ + 1]
             ELSE addEdit(s, uri, changes)

\* onDocumentChange that buffers every accepted event.
onDocumentChange_buffers_all(s, uri, changes) ==
    IF ~s.enabled THEN s
    ELSE IF Scheme(uri) # "file" THEN s
    ELSE addEdit([s EXCEPT !.stats.totalChanges = @ + 1], uri, changes)

onDocumentChange(s, uri, changes) ==
    IF ~s.enabled THEN s
    ELSE IF Scheme(uri) # "file" THEN s
    ELSE LET s1 == [s EXCEPT !.stats.totalChanges = @ + 1]
             classification == classify(s1.filter, changes)
         IN  IF ~classification.isSignificant
             THEN [s1 EXCEPT !.stats.filteredOut = @ + 1]
             ELSE addEdit(s1, uri, changes)

\* onDocumentSave that processes the buffered edits without flushing them.
onDocumentSave_keeps_entry(s, uri) ==
    IF ~s.enabled THEN s
    ELSE IF Scheme(uri) # "file" THEN s
    ELSE IF hasBufferedEdits(s, uri)
         THEN processEdits(s, uri, s.buffer[uri].document, s.buffer[uri].edits)
         ELSE s

onDocumentSave(s, uri) ==
    IF ~s.enabled THEN s
    ELSE IF Scheme(uri) # "file" THEN s
    ELSE IF hasBufferedEdits(s, uri)
         THEN LET f == flush(s, uri)
              IN  IF MapHas(f.result, uri)
                  THEN processEdits(f.state, uri, f.result[uri].document,
                                    f.result[uri].edits)
                  ELSE f.state
         ELSE s

updateConfig(s, config) ==
    LET s1 == IF "idleMs" \in DOMAIN config THEN setIdleMs(s, config.idleMs) ELSE s
        s2 == IF "filter" \in DOMAIN config
              THEN [s1 EXCEPT !.filter = Merge(@, config.filter)] ELSE s1
    IN  IF "enabled" \in DOMAIN config
        THEN [s2 EXCEPT !.enabled = config.enabled] ELSE s2

resetStats(s) ==
    [s EXCEPT !.stats = [totalChanges |-> 0, filteredOut |-> 0, sentToLsp |-> 0]]

setClient(s, running) ==
    [s EXCEPT !.client = IF running THEN "running" ELSE "stopped"]

disposeOrchestrator(s) == dispose(s)

\* ------------------------------------------- idle callbacks and timers

\* The callbacks an EditBuffer is given: the orchestrator's (processEdits),
\* the test suite's counting and throwing callbacks, and one that adds an
\* edit for the same URI while it runs.  "unheard" in the history: the timer
\* fired with no callback registered and the edits were dropped.
TestCallbacks == {"counts", "throws", "reenters"}

InsertBeforeLast(q, x) == Append(SubSeq(q, 1, Len(q) - 1), x) \o << q[Len(q)] >>

\* this.idleCallback(uri, entry.document, entry.edits), s being the state at
\* the call.  The list handed over is the entry's own array: it grows with the
\* entry if the entry is still in the map.
invokeCallback(s, uri, entry) ==
    LET given(after) == IF MapHas(s.buffer, uri) /\ MapHas(after.buffer, uri)
                        THEN after.buffer[uri].edits ELSE entry.edits
        logged(threw) == [s EXCEPT !.hist[uri] =
                              Append(@, Ev("idle", entry.edits, 0, threw))]
    IN  CASE s.idleCallback = "processEdits" ->
               [state |-> processEdits(logged(FALSE), uri, entry.document, entry.edits),
                threw |-> FALSE]
          [] s.idleCallback = "counts" ->
               [state |-> logged(FALSE), threw |-> FALSE]
          [] s.idleCallback = "throws" ->
               [state |-> logged(TRUE), threw |-> TRUE]
          [] s.idleCallback = "reenters" ->
               IF s.nextEdit < MaxAdds
               THEN LET after == addEdit(s, uri, entry.edits[1].changes)
                    IN  [state |-> [after EXCEPT !.hist[uri] =
                                       InsertBeforeLast(@, Ev("idle", given(after),
                                                              s.nextEdit + 1, FALSE))],
                         threw |-> FALSE]
               ELSE [state |-> logged(FALSE), threw |-> FALSE]

\* onTimerFired that deletes the entry after the callback has returned
\* instead of before it is invoked.
onTimerFired_deletes_late(s, uri) ==
    IF ~MapHas(s.buffer, uri) THEN [state |-> s, threw |-> FALSE]
    ELSE IF Len(s.buffer[uri].edits) = 0 THEN [state |-> s, threw |-> FALSE]
    ELSE LET entry == s.buffer[uri]
         IN  IF s.idleCallback # None
             THEN LET r == invokeCallback(s, uri, entry)
                  IN  [state |-> IF r.threw THEN r.state
                                 ELSE [r.state EXCEPT !.buffer = MapDelete(@, uri)],
                       threw |-> FALSE]
             ELSE [state |-> [s EXCEPT !.buffer = MapDelete(@, uri),
                                       !.hist[uri] =
                                 Append(@, Ev("unheard", entry.edits, 0, FALSE))],
                   threw |-> FALSE]

\* onTimerFired that leaves the entry in the map when no callback is
\* registered.
onTimerFired_keeps_unheard(s, uri) ==
    IF ~MapHas(s.buffer, uri) THEN [state |-> s, threw |-> FALSE]
    ELSE IF Len(s.buffer[uri].edits) = 0 THEN [state |-> s, threw |-> FALSE]
    ELSE LET entry == s.buffer[uri]
             s1 == [s EXCEPT !.buffer = MapDelete(@, uri)]
         IN  IF s1.idleCallback # None
             THEN [state |-> invokeCallback(s1, uri, entry).state, threw |-> FALSE]
             ELSE [state |-> s, threw |-> FALSE]

\* The result says whether an exception leaves the function: the inner
\* try/catch logs the callback's exception and swallows it.
onTimerFired(s, uri) ==
    IF ~MapHas(s.buffer, uri) THEN [state |-> s, threw |-> FALSE]
    ELSE IF Len(s.buffer[uri].edits) = 0 THEN [state |-> s, threw |-> FALSE]
    ELSE LET entry == s.buffer[uri]
             s1 == [s EXCEPT !.buffer = MapDelete(@, uri)]
         IN  IF s1.idleCallback # None
             THEN [state |-> invokeCallback(s1, uri, entry).state, threw |-> FALSE]
             ELSE [state |-> [s1 EXCEPT !.hist[uri] =
                                 Append(@, Ev("unheard", entry.edits, 0, FALSE))],
                   threw |-> FALSE]

\* The closure without this.timers.delete(uri): the fired handle stays in
\* the map.
timerClosure_keeps_handle(s, uri) ==
    [state |-> onTimerFired(s, uri).state, threw |-> FALSE]

\* The closure resetTimer hands to setTimeout; its try/catch swallows whatever
\* onTimerFired throws.
timerClosure(s, uri) ==
    [state |-> onTimerFired([s EXCEPT !.timers = MapDelete(@, uri)], uri).state,
     threw |-> FALSE]

\* ---------------------------------------------------------------- Init

InitCommon ==
    /\ now = Epoch
    /\ nextEdit = 0
    /\ docVersion = [u \in URIs |-> 1]
    /\ buffer = EmptyMap
    /\ timers = EmptyMap
    /\ pending = {}
    /\ hist = [u \in URIs |-> << >>]
    /\ uncaught = 0
    /\ filter = DefaultFilter
    /\ enabled = TRUE
    /\ client = "unset"
    /\ stats = [totalChanges |-> 0, filteredOut |-> 0, sentToLsp |-> 0]
    /\ consecutiveFailures = 0
    /\ lastNotificationTime = 0
    /\ dispatches = << >>
    /\ inflight = EmptyMap
    /\ warnings = << >>
    /\ lastReply = [kind |-> "none", before |-> 0, index |-> 0]
    /\ streak = 0
    /\ classified = << >>
    /\ mockDocument = << >>
    /\ combined = << >>
    /\ cache = << >>
    /\ lastCall = << >>
    /\ recency = << >>
    /\ lookups = << >>
    /\ skipped = {}

\* new EditBuffer(100), as the test suite's setup builds it.
InitTest ==
    /\ owner = "test"
    /\ idleMs = TestIdleMs
    /\ idleCallback = None
    /\ maxSize = DEFAULT_SYMBOL_CACHE_SIZE
    /\ InitCommon

\* new EditBuffer(idleMs), idleMs given or left to its default.
InitBurst ==
    /\ owner = "test"
    /\ idleMs \in IdleMsChoices
    /\ idleCallback = None
    /\ maxSize = DEFAULT_SYMBOL_CACHE_SIZE
    /\ InitCommon

\* new SmartDiagnostics({...}) with the default configuration.
InitSmartDiagnostics ==
    /\ owner = "SmartDiagnostics"
    /\ idleMs = DefaultIdleMs
    /\ idleCallback = "processEdits"
    /\ maxSize = DEFAULT_SYMBOL_CACHE_SIZE
    /\ InitCommon

Init == InitTest \/ InitSmartDiagnostics

\* new ChangeFilter(), as the filter's test suite builds it.
InitChangeFilter ==
    /\ owner = "ChangeFilter"
    /\ idleMs = DefaultIdleMs
    /\ idleCallback = None
    /\ maxSize = DEFAULT_SYMBOL_CACHE_SIZE
    /\ InitCommon

\* -------------------------------------------------------------- actions

EventCount == docVersion[FileA] + docVersion[FileB] + docVersion[Untitled] - 3

Tick ==
    /\ now < Epoch + MaxTicks * TickMs
    /\ now' = now + TickMs
    /\ UNCHANGED << owner, nextEdit, docVersion, buffer, timers, pending, idleMs,
                    idleCallback, hist, uncaught, enabled, filter, client, stats,
                    consecutiveFailures, lastNotificationTime, dispatches, inflight,
                    warnings, lastReply, streak, classified,
                    mockDocument, combined,
                    cache, maxSize, lastCall, recency, lookups, skipped >>

\* A timeout fires no earlier than it is due and is gone once it has fired.
TimerFires(t) ==
    /\ t \in pending
    /\ t.due <= now
    /\ LET r == timerClosure([Cur EXCEPT !.pending = @ \ {t}], t.uri)
       IN  Become(IF r.threw THEN [r.state EXCEPT !.uncaught = @ + 1] ELSE r.state)

\* The suite registers its callback once per buffer.
TestOnIdle(callback) ==
    /\ owner = "test"
    /\ idleCallback = None
    /\ Become(onIdle(Cur, callback))

TestSetIdleMs(ms) ==
    /\ owner = "test"
    /\ Become(setIdleMs(Cur, ms))

TestAddEdit(uri, changes) ==
    /\ owner = "test"
    /\ nextEdit < MaxAdds
    /\ Become(addEdit(Cur, uri, changes))

TestFlush(uri) ==
    /\ owner = "test"
    /\ Become(flush(Cur, uri).state)

TestFlushAll ==
    /\ owner = "test"
    /\ Become(flushAll(Cur).state)

\* editBuffer.getCombinedRange(edits), its argument and its result kept.
TestGetCombinedRange(edits) ==
    /\ owner = "test"
    /\ combined = << >>
    /\ Become([Cur EXCEPT !.combined =
                   << [edits |-> edits, range |-> getCombinedRange(edits)] >>])

TestDispose ==
    /\ owner = "test"
    /\ Become(dispose(Cur))

\* The configurations updateConfig is given: single settings, and the whole
\* configuration as the extension's settings listener passes it.
ConfigUpdates ==
    { [enabled |-> FALSE],
      [idleMs |-> DefaultIdleMs, enabled |-> TRUE, filter |-> DefaultFilter] }

ScopeOutcomes == {"method", None, "rejects"}

\* onDidChangeTextDocument: the document has its new version when the
\* listener runs.
ChangeEvent(uri, changes) ==
    /\ owner = "SmartDiagnostics"
    /\ Become(onDocumentChange([Cur EXCEPT !.docVersion[uri] = @ + 1], uri, changes))

SaveEvent(uri) ==
    /\ owner = "SmartDiagnostics"
    /\ Become(onDocumentSave(Cur, uri))

UpdateConfig(config) ==
    /\ owner = "SmartDiagnostics"
    /\ Become(updateConfig(Cur, config))

SetClient(running) ==
    /\ owner = "SmartDiagnostics"
    /\ client = "unset"
    /\ Become(setClient(Cur, running))

\* The language client starts or stops; isRunning() follows.
ClientToggles ==
    /\ owner = "SmartDiagnostics"
    /\ client # "unset"
    /\ Become([Cur EXCEPT !.client = IF @ = "running" THEN "stopped" ELSE "running"])

\* processEdits resumes after the scope lookup (a rejection leaves the scope
\* undefined) and runs sendToLSP up to its await.
ScopeSettles(i, outcome) ==
    /\ owner = "SmartDiagnostics"
    /\ MapHas(inflight, i)
    /\ inflight[i].stage = "scope"
    /\ Become(sendToLSP(Cur, i, IF outcome = "rejects" THEN None ELSE outcome))

RequestResolves(i) ==
    /\ owner = "SmartDiagnostics"
    /\ MapHas(inflight, i)
    /\ inflight[i].stage = "request"
    /\ Become(requestResolved(Cur, i))

RequestRejects(i) ==
    /\ owner = "SmartDiagnostics"
    /\ MapHas(inflight, i)
    /\ inflight[i].stage = "request"
    /\ Become(requestRejected(Cur, i))

ResetStats ==
    /\ owner = "SmartDiagnostics"
    /\ Become(resetStats(Cur))

Dispose ==
    /\ owner = "SmartDiagnostics"
    /\ Become(disposeOrchestrator(Cur))

\* The test suite drives an EditBuffer directly.
NextTest ==
    \/ Tick
    \/ \E t \in pending : TimerFires(t)
    \/ \E cb \in TestCallbacks : TestOnIdle(cb)
    \/ \E ms \in IdleMsChoices : TestSetIdleMs(ms)
    \/ \E u \in FileURIs, b \in TestBatches : TestAddEdit(u, b)
    \/ \E u \in FileURIs : TestFlush(u)
    \/ TestFlushAll
    \/ TestDispose

\* The extension drives the orchestrator.
NextSmartDiagnostics ==
    \/ Tick
    \/ \E t \in pending : TimerFires(t)
    \/ \E u \in URIs, b \in Batches : EventCount < MaxEvents /\ ChangeEvent(u, b)
    \/ \E u \in URIs : SaveEvent(u)
    \/ \E c \in ConfigUpdates : UpdateConfig(c)
    \/ \E r \in BOOLEAN : SetClient(r)
    \/ ClientToggles
    \/ \E i \in 1..MaxEvents, o \in ScopeOutcomes : ScopeSettles(i, o)
    \/ \E i \in 1..MaxEvents : RequestResolves(i)
    \/ \E i \in 1..MaxEvents : RequestRejects(i)
    \/ Dispose

Next == NextTest \/ NextSmartDiagnostics

SpecBuffer == InitTest /\ [][NextTest]_vars

SpecOrchestrator == InitSmartDiagnostics /\ [][NextSmartDiagnostics]_vars

Spec == Init /\ [][Next]_vars

\* Bursts of edits with no flush and no dispose, under a runtime whose clock
\* advances and whose due timeouts fire.
NextBurst ==
    \/ Tick
    \/ \E t \in pending : TimerFires(t)
    \/ \E cb \in TestCallbacks : TestOnIdle(cb)
    \/ \E u \in FileURIs, b \in TestBatches : TestAddEdit(u, b)

SpecBurst ==
    /\ InitBurst
    /\ [][NextBurst]_vars
    /\ WF_vars(Tick)
    /\ WF_vars(\E t \in pending : TimerFires(t))

\* The clock goes on for as long as a timeout is armed that is not yet due.
ClockRuns ==
    /\ \/ now < Epoch + MaxTicks * TickMs
       \/ \E t \in pending : now < t.due
    /\ Become([Cur EXCEPT !.now = @ + TickMs])

\* A buffer that is never disposed, under a runtime whose clock advances
\* and whose due timeouts fire.
NextDebounce ==
    \/ ClockRuns
    \/ \E t \in pending : TimerFires(t)
    \/ \E cb \in TestCallbacks : TestOnIdle(cb)
    \/ \E u \in FileURIs, b \in TestBatches : TestAddEdit(u, b)
    \/ \E u \in FileURIs : TestFlush(u)
    \/ TestFlushAll

SpecDebounce ==
    /\ InitBurst
    /\ [][NextDebounce]_vars
    /\ WF_vars(ClockRuns)
    /\ WF_vars(\E t \in pending : TimerFires(t))

\* The orchestrator in front of a server that leaves its requests unanswered.
NextPipeline ==
    \/ Tick
    \/ \E t \in pending : TimerFires(t)
    \/ \E u \in URIs, b \in Batches : EventCount < MaxEvents /\ ChangeEvent(u, b)
    \/ \E u \in URIs : SaveEvent(u)
    \/ \E c \in ConfigUpdates : UpdateConfig(c)
    \/ \E r \in BOOLEAN : SetClient(r)
    \/ ClientToggles
    \/ \E i \in 1..MaxEvents, o \in ScopeOutcomes : ScopeSettles(i, o)
    \/ Dispose

SpecPipeline == InitSmartDiagnostics /\ [][NextPipeline]_vars

\* The orchestrator with its configuration left alone, in front of a server
\* that answers.
NextReplies ==
    \/ Tick
    \/ \E t \in pending : TimerFires(t)
    \/ \E u \in URIs, b \in Batches : EventCount < MaxEvents /\ ChangeEvent(u, b)
    \/ \E u \in URIs : SaveEvent(u)
    \/ \E r \in BOOLEAN : SetClient(r)
    \/ ClientToggles
    \/ \E i \in 1..MaxEvents, o \in ScopeOutcomes : ScopeSettles(i, o)
    \/ \E i \in 1..MaxEvents : RequestResolves(i)
    \/ \E i \in 1..MaxEvents : RequestRejects(i)

SpecReplies == InitSmartDiagnostics /\ [][NextReplies]_vars

\* One document edited and saved again before the requests of the earlier
\* saves are answered; the answers come in any order.
NextOverlap ==
    \/ SetClient(TRUE)
    \/ EventCount < MaxOverlap /\ ChangeEvent(FileA, BatchCode)
    \/ SaveEvent(FileA)
    \/ \E i \in DOMAIN inflight : ScopeSettles(i, "method")
    \/ \E i \in DOMAIN inflight : RequestResolves(i)
    \/ \E i \in DOMAIN inflight : RequestRejects(i)

SpecOverlap == InitSmartDiagnostics /\ [][NextOverlap]_vars

\* Two documents edited, saved and left idle at the same time, in front of
\* a server that answers in any order, or not at all.
NextConcurrent ==
    \/ Tick
    \/ SetClient(TRUE)
    \/ \E u \in FileURIs, b \in Batches : EventCount < MaxEvents /\ ChangeEvent(u, b)
    \/ \E u \in FileURIs : SaveEvent(u)
    \/ \E t \in pending : TimerFires(t)
    \/ \E i \in DOMAIN inflight, o \in ScopeOutcomes : ScopeSettles(i, o)
    \/ \E i \in DOMAIN inflight : RequestResolves(i)
    \/ \E i \in DOMAIN inflight : RequestRejects(i)

SpecConcurrent == InitSmartDiagnostics /\ [][NextConcurrent]_vars

\* filter.classify(doc, changes), its configuration and its result kept.
TestClassify(changes) ==
    /\ owner = "ChangeFilter"
    /\ Become([Cur EXCEPT !.classified =
                   << [changes |-> changes, config |-> filter,
                       result |-> classify(filter, changes)] >>])

\* filter.updateConfig({ flag: value })
TestUpdateConfig(config) ==
    /\ owner = "ChangeFilter"
    /\ Become([Cur EXCEPT !.filter = filterUpdateConfig(@, config)])

\* createMockDocument(languageId, content)
TestCreateDocument(doc) ==
    /\ owner = "ChangeFilter"
    /\ mockDocument = << >>
    /\ Become([Cur EXCEPT !.mockDocument = << doc >>])

\* filter.classify(doc, [change]), once on the document of the test; the
\* kind is what classifySingleChange answers for the change.
TestClassifyText(change) ==
    /\ owner = "ChangeFilter"
    /\ mockDocument # << >>
    /\ classified = << >>
    /\ LET doc == mockDocument[1]
           changes == << Change(rangeOf(doc, change), classifySingleChange(doc, change)) >>
       IN  Become([Cur EXCEPT !.classified =
                      << [changes |-> changes, config |-> filter,
                          result |-> classify(filter, changes),
                          text |-> change] >>])

NextText ==
    \/ mockDocument = << >> /\ \E doc \in Documents : TestCreateDocument(doc)
    \/ mockDocument # << >> /\ \E c \in TextChanges(mockDocument[1]) : TestClassifyText(c)

SpecText == InitChangeFilter /\ [][NextText]_vars

\* new TestLRUCache(maxSize)
InitLRUCache ==
    /\ owner = "LRUCache"
    /\ idleMs = DefaultIdleMs
    /\ idleCallback = None
    /\ maxSize \in Capacities
    /\ InitCommon

\* One call on the cache, recorded with the cache and the order of last use
\* before it and with its result.  In the order of last use, keys that left
\* the cache leave the order and the keys the call used go last.
Called(op, key, value, after, result, used) ==
    Become([Cur EXCEPT !.cache = after,
                       !.lastCall = << [op |-> op, key |-> key, value |-> value,
                                        before |-> cache, order |-> recency,
                                        result |-> result] >>,
                       !.recency =
                           SelectSeq(@, LAMBDA k : k \in KeysOf(after) /\ k \notin used)
                             \o SelectSeq(KeyOrder,
                                          LAMBDA k : k \in used /\ k \in KeysOf(after))])

\* cache.get(key)
TestGet(key) ==
    /\ owner = "LRUCache"
    /\ LET r == lruGet(cache, key)
       IN  Called("get", key, 0, r.cache, r.value, IF r.value # << >> THEN {key} ELSE {})

\* cache.set(key, value)
TestSet(key, value) ==
    /\ owner = "LRUCache"
    /\ Called("set", key, value, lruSet(cache, maxSize, key, value), << >>, {key})

\* cache.delete(key)
TestDelete(key) ==
    /\ owner = "LRUCache"
    /\ Called("delete", key, 0, lruDelete(cache, key), << >>, {})

\* cache.clear()
TestClear ==
    /\ owner = "LRUCache"
    /\ Called("clear", "", 0, lruClear(cache), << >>, {})

NextLRUCache ==
    \/ \E k \in CacheKeys : TestGet(k)
    \/ \E k \in CacheKeys, v \in CacheValues : TestSet(k, v)
    \/ \E k \in CacheKeys : TestDelete(k)
    \/ TestClear

SpecLRUCache == InitLRUCache /\ [][NextLRUCache]_vars

\* new ScopeTracker(cacheSize)
InitScopeTracker ==
    /\ owner = "ScopeTracker"
    /\ idleMs = DefaultIdleMs
    /\ idleCallback = None
    /\ maxSize \in CacheSizes
    /\ InitCommon

\* new ScopeTracker()
InitOutline ==
    /\ owner = "ScopeTracker"
    /\ idleMs = DefaultIdleMs
    /\ idleCallback = None
    /\ maxSize = DEFAULT_SYMBOL_CACHE_SIZE
    /\ InitCommon

\* scopeTracker.getEnclosingScope(document, position) or
\* scopeTracker.getEnclosingScopeForRange(document, range)
GetEnclosingScope(uri, query) ==
    /\ owner = "ScopeTracker"
    /\ Len(lookups) < MaxLookups
    /\ Become(getEnclosingScope(Cur, uri, query))

\* vscode.commands.executeCommand answers the i-th call.
ProviderAnswers(i, outcome) ==
    /\ owner = "ScopeTracker"
    /\ i \in 1..Len(lookups)
    /\ lookups[i].stage = "awaiting"
    /\ Become(onSymbols(Cur, i, outcome))

\* The document is edited: its version goes up.
DocumentEdited(uri) ==
    /\ owner = "ScopeTracker"
    /\ EventCount < MaxEvents
    /\ Become([Cur EXCEPT !.docVersion[uri] = @ + 1])

\* scopeTracker.clearCache(uri) and scopeTracker.clearCache()
ClearCache(uri) ==
    /\ owner = "ScopeTracker"
    /\ cache # << >>
    /\ Become(clearCache(Cur, uri))

\* The cache of outlines at work: two documents, edits of one of them,
\* calls that overlap.
NextSymbols ==
    \/ \E uri \in FileURIs : GetEnclosingScope(uri, [op |-> "position", at |-> Pos(1, 0)])
    \/ \E i \in 1..MaxLookups :
          \/ \E o \in SmallOutlines : ProviderAnswers(i, Returns(o))
          \/ \E f \in Fails : ProviderAnswers(i, f)
    \/ DocumentEdited(FileA)
    \/ \E uri \in FileURIs \cup {None} : ClearCache(uri)

SpecSymbols == InitScopeTracker /\ [][NextSymbols]_vars

\* One lookup in each outline.
NextOutline ==
    \/ lookups = << >> /\ \E q \in Queries : GetEnclosingScope(FileA, q)
    \/ /\ lookups # << >>
       /\ lookups[1].stage = "awaiting"
       /\ \/ \E o \in Outlines : ProviderAnswers(1, Returns(o))
          \/ \E f \in Fails : ProviderAnswers(1, f)

SpecOutline == InitOutline /\ [][NextOutline]_vars

NextRanges ==
    /\ combined = << >>
    /\ \E n \in 0..MaxAdds : \E cs \in [1..n -> TestChangeLists] :
          TestGetCombinedRange(TestEdits(cs))

SpecRanges == InitTest /\ [][NextRanges]_vars

NextChangeFilter ==
    \/ \E b \in KindBatches : TestClassify(b)
    \/ \E c \in FlagUpdates : TestUpdateConfig(c)

SpecChangeFilter == InitChangeFilter /\ [][NextChangeFilter]_vars

\* The clock advances by the notification cooldown.
Wait ==
    /\ now + NOTIFICATION_COOLDOWN_MS
          <= Epoch + MaxWaits * NOTIFICATION_COOLDOWN_MS
    /\ now' = now + NOTIFICATION_COOLDOWN_MS
    /\ UNCHANGED << owner, nextEdit, docVersion, buffer, timers, pending, idleMs,
                    idleCallback, hist, uncaught, enabled, filter, client, stats,
                    consecutiveFailures, lastNotificationTime, dispatches, inflight,
                    warnings, lastReply, streak, classified,
                    mockDocument, combined,
                    cache, maxSize, lastCall, recency, lookups, skipped >>

\* One document edited and saved again and again, over minutes, in front of
\* a server that answers or fails one request at a time.
NextFailures ==
    \/ Wait
    \/ SetClient(TRUE)
    \/ EventCount < MaxFailures /\ inflight = EmptyMap /\ ChangeEvent(FileA, BatchCode)
    \/ SaveEvent(FileA)
    \/ \E t \in pending : TimerFires(t)
    \/ \E i \in DOMAIN inflight : ScopeSettles(i, "method")
    \/ \E i \in DOMAIN inflight : RequestResolves(i)
    \/ \E i \in DOMAIN inflight : RequestRejects(i)

SpecFailures == InitSmartDiagnostics /\ [][NextFailures]_vars

\* The same, with a language client that stops at some point and stays down.
NextOutage ==
    \/ NextFailures
    \/ client = "running" /\ ClientToggles

SpecOutage == InitSmartDiagnostics /\ [][NextOutage]_vars

\* Every way edits leave a buffer: the buffer driven directly, and the
\* orchestrator's pipeline.
SpecHandOuts == Init /\ [][NextTest \/ NextPipeline]_vars

\* The orchestrator with getStats' counters reset at any moment.
SpecStats == InitSmartDiagnostics /\ [][NextSmartDiagnostics \/ ResetStats]_vars

\* The counters at work: change events, saves, idle firings, configuration
\* updates and resets, the client started at some moment.
NextCounters ==
    \/ Tick
    \/ \E t \in pending : TimerFires(t)
    \/ \E u \in URIs, b \in Batches : EventCount < MaxEvents /\ ChangeEvent(u, b)
    \/ \E u \in URIs : SaveEvent(u)
    \/ \E c \in ConfigUpdates : UpdateConfig(c)
    \/ SetClient(TRUE)
    \/ ResetStats

SpecCounters == InitSmartDiagnostics /\ [][NextCounters]_vars

\* The scope a request carries: the EditScope found, told by its kind, or
\* none.
scopeSent(found) == IF found = << >> THEN None ELSE found[1].kind

\* processEdits from the answer of its i-th scope lookup on, the lookup
\* resolved or rejected: the catch leaves the scope undefined, and sendToLSP
\* runs up to its await.
processEditsResumes(s, i) ==
    sendToLSP(s, i, IF s.lookups[i].stage = "done"
                    THEN scopeSent(s.lookups[i].scope) ELSE None)

\* processEdits at scopeTracker.getEnclosingScopeForRange(document,
\* combinedRange), for the dispatch a handler has just started: the lookup
\* waits for the outline provider, or is answered from the cache, and then
\* the request goes out before any other event is handled.
fetchScope(s) ==
    IF Len(s.lookups) = Len(s.dispatches) THEN s
    ELSE LET i == Len(s.dispatches)
             s1 == getEnclosingScope(s, s.inflight[i].document,
                                     [op |-> "range", at |-> s.inflight[i].affectedRange])
         IN  IF s1.lookups[i].stage = "done" THEN processEditsResumes(s1, i) ELSE s1

\* A save, with the scope lookup of the dispatch it starts.
SaveFetches(uri) ==
    /\ owner = "SmartDiagnostics"
    /\ Become(fetchScope(onDocumentSave(Cur, uri)))

\* A timeout fires, with the scope lookup of the dispatch it starts.
IdleFetches(t) ==
    /\ owner = "SmartDiagnostics"
    /\ t \in pending
    /\ t.due <= now
    /\ Become(fetchScope(timerClosure([Cur EXCEPT !.pending = @ \ {t}], t.uri).state))

\* The outline provider answers the i-th lookup, and processEdits goes on.
SymbolsArrive(i, outcome) ==
    /\ owner = "SmartDiagnostics"
    /\ i \in 1..Len(lookups)
    /\ lookups[i].stage = "awaiting"
    /\ Become(processEditsResumes(onSymbols(Cur, i, outcome), i))

\* The orchestrator with its ScopeTracker, in front of a server that leaves
\* its requests unanswered.
NextTracked ==
    \/ Tick
    \/ SetClient(TRUE)
    \/ \E u \in FileURIs : EventCount < MaxEvents /\ ChangeEvent(u, BatchCode)
    \/ \E u \in FileURIs : SaveFetches(u)
    \/ \E t \in pending : IdleFetches(t)
    \/ \E i \in 1..MaxEvents :
          \/ \E o \in SmallOutlines : SymbolsArrive(i, Returns(o))
          \/ \E f \in Fails : SymbolsArrive(i, f)

SpecTracked == InitSmartDiagnostics /\ [][NextTracked]_vars

\* ------------------------------------------------- reading the history

Removal(e) == e.ev \in {"idle", "unheard", "flush", "flushAll", "dispose"}

HandOut(e) == e.ev \in {"idle", "flush", "flushAll"}

\* The last removal among the first k entries of h, 0 if there is none.
RemovalBefore(h, k) ==
    IF \E j \in 1..k : Removal(h[j])
    THEN CHOOSE j \in 1..k : Removal(h[j]) /\ \A i \in (j + 1)..k : ~Removal(h[i])
    ELSE 0

\* The edits added after entry `from` of h up to entry `to`, in order.
AddedBetween(h, from, to) == [i \in 1..(to - from) |-> h[from + i].ids[1]]

\* The edits added to a URI and neither handed out nor dropped so far.
Since(h) == AddedBetween(h, RemovalBefore(h, Len(h)), Len(h))

TimersOf(uri) == {t \in pending : t.uri = uri}

\* The buffer holds for uri exactly the edits added since the last removal,
\* and a single timeout is armed for them, due one delay after the last edit.
Tracks(uri) ==
    IF Since(hist[uri]) = << >>
    THEN ~MapHas(buffer, uri) /\ ~MapHas(timers, uri) /\ TimersOf(uri) = {}
    ELSE /\ MapHas(buffer, uri)
         /\ Ids(buffer[uri].edits) = Since(hist[uri])
         /\ MapHas(timers, uri)
         /\ \E t \in pending :
               /\ TimersOf(uri) = {t}
               /\ t.id = timers[uri]
               /\ t.due = buffer[uri].edits[Len(buffer[uri].edits)].timestamp + t.delay

\* The step handed edits of uri to the idle callback.
IdleFired(uri) ==
    \E k \in (Len(hist[uri]) + 1)..Len(hist'[uri]) : hist'[uri][k].ev = "idle"

Disjoint(p, q) == \A i \in 1..Len(p), j \in 1..Len(q) : p[i] # q[j]

\* ---------------------------------------------------------- properties

\* Every idle callback so far got exactly the edits added to its URI since
\* the URI's entry was last removed, in the order added, and the edits that
\* wait are in the buffer under one armed timeout due one delay after the
\* last of them.
Coalesced ==
    \A u \in URIs :
        /\ Tracks(u)
        /\ \A k \in 1..Len(hist[u]) :
              hist[u][k].ev = "idle" =>
                  /\ hist[u][k].ids # << >>
                  /\ hist[u][k].ids =
                        AddedBetween(hist[u], RemovalBefore(hist[u], k - 1), k - 1)

\* Edits wait for uri under a timeout that falls within the time the clock
\* covers.
Waiting(uri) ==
    /\ MapHas(buffer, uri)
    /\ \E t \in TimersOf(uri) : t.due <= Epoch + MaxTicks * TickMs

C2_NeverEarly ==
    [][\A t \in pending :
          (TimerFires(t) /\ IdleFired(t.uri)) =>
              LET edits == buffer[t.uri].edits
              IN  /\ t.id = edits[Len(edits)].id
                  /\ now >= edits[Len(edits)].timestamp + t.delay]_vars

\* A second edit arrived after the first edit's timeout was due and the
\* callback has not run: the first timeout was cancelled.
C2_Witness ==
    \E u \in DOMAIN buffer : \E t \in pending :
        /\ owner = "test"
        /\ t.uri = u
        /\ Len(buffer[u].edits) = 2
        /\ buffer[u].edits[1].timestamp < buffer[u].edits[2].timestamp
        /\ now >= buffer[u].edits[1].timestamp + t.delay
        /\ now < t.due

\* No entry of kind `later` follows an entry of kind `earlier` with which it
\* shares an edit.
NeverAfter(earlier, later) ==
    \A u \in URIs : \A j, k \in 1..Len(hist[u]) :
        (j < k /\ hist[u][j].ev = earlier /\ hist[u][k].ev = later)
            => Disjoint(hist[u][j].ids, hist[u][k].ids)

\* C3: flush(uri) on a URI with pending edits returns the entry with all its
\* edits, cancels the URI's timeout and leaves hasBufferedEdits(uri) false,
\* and the idle callback never gets those edits afterwards; on a URI with no
\* entry it returns undefined and changes no entry and no timer.
C3_Flush ==
    [][/\ \A u \in FileURIs :
             TestFlush(u) =>
                 IF MapHas(buffer, u)
                 THEN /\ flush(Cur, u).result = MapSet(EmptyMap, u, buffer[u])
                      /\ ~hasBufferedEdits(Cur, u)'
                      /\ ~MapHas(timers', u)
                      /\ TimersOf(u)' = {}
                      /\ hist'[u][Len(hist'[u])].ev = "flush"
                      /\ hist'[u][Len(hist'[u])].ids = Ids(buffer[u].edits)
                 ELSE /\ flush(Cur, u).result = EmptyMap
                      /\ buffer' = buffer
                      /\ timers' = timers
                      /\ pending' = pending
       /\ NeverAfter("flush", "idle")']_vars

\* Edits were flushed and the callback later ran for edits added afterwards.
C3_Witness ==
    \E u \in URIs : \E j, k \in 1..Len(hist[u]) :
        /\ owner = "test"
        /\ j < k
        /\ hist[u][j].ev = "flush"
        /\ hist[u][k].ev = "idle"

\* C4: the entry is out of the map when the idle callback runs: an addEdit
\* for the same URI made inside the callback is not in the list the callback
\* was given, and it creates a fresh entry holding that edit alone under a
\* timeout of its own.
C4_Reentrant ==
    \A u \in URIs : \A k \in 1..Len(hist[u]) :
        (hist[u][k].ev = "idle" /\ hist[u][k].reentered # 0) =>
            LET e == hist[u][k].reentered
            IN  /\ \A i \in 1..Len(hist[u][k].ids) : hist[u][k].ids[i] # e
                /\ k < Len(hist[u])
                /\ hist[u][k + 1].ev = "add"
                /\ hist[u][k + 1].ids = << e >>
                /\ k + 1 = Len(hist[u]) =>
                      /\ MapHas(buffer, u)
                      /\ Ids(buffer[u].edits) = << e >>
                      /\ MapHas(timers, u)
                      /\ timers[u] = e
                      /\ \E t \in pending : t.id = e /\ t.uri = u

C4_Witness ==
    \E u \in URIs : \E k \in 1..Len(hist[u]) :
        /\ hist[u][k].ev = "idle"
        /\ hist[u][k].reentered # 0
        /\ k + 1 = Len(hist[u])

\* C5: an exception of the idle callback never leaves the timer closure;
\* right after a throwing callback the URI has no entry and no timeout, and
\* from then on the URI buffers and fires as usual.
C5_ThrowingCallback ==
    /\ uncaught = 0
    /\ \A u \in URIs : \A k \in 1..Len(hist[u]) :
          hist[u][k].threw =>
              /\ k = Len(hist[u]) =>
                    (~MapHas(buffer, u) /\ ~MapHas(timers, u) /\ TimersOf(u) = {})
              /\ Tracks(u)

\* The callback threw, and a later edit of the URI reached the callback.
C5_Witness ==
    \E u \in URIs : \E j, k \in 1..Len(hist[u]) :
        /\ j < k
        /\ hist[u][j].threw
        /\ hist[u][k].ev = "idle"

\* C6: dispose() cancels every pending timeout and drops every entry without
\* invoking the idle callback, and no edit buffered before dispose reaches
\* the callback later.
C6_Dispose ==
    [][/\ TestDispose =>
             /\ pending' = {}
             /\ buffer' = EmptyMap
             /\ timers' = EmptyMap
             /\ \A u \in URIs : ~IdleFired(u)
       /\ NeverAfter("dispose", "idle")']_vars

\* Edits were dropped by dispose and the callback later ran for edits added
\* afterwards.
C6_Witness ==
    \E u \in URIs : \E j, k \in 1..Len(hist[u]) :
        /\ j < k
        /\ hist[u][j].ev = "dispose"
        /\ hist[u][k].ev = "idle"

\* No edit is in two dispatches.
DispatchedOnce ==
    \A i, j \in 1..Len(dispatches) : i < j => Disjoint(dispatches[i], dispatches[j])

\* C7: with the orchestrator enabled and the client running, onDocumentSave
\* for a file document with buffered edits starts the dispatch of exactly
\* those edits within the call, and the entry and its timeout are gone when
\* it returns, so the idle timer never dispatches the same edits again.
C7_SaveFlushes ==
    [][/\ \A u \in URIs :
             (/\ enabled
              /\ client = "running"
              /\ Scheme(u) = "file"
              /\ hasBufferedEdits(Cur, u)
              /\ SaveEvent(u)) =>
                 /\ dispatches' = Append(dispatches, Ids(buffer[u].edits))
                 /\ DOMAIN inflight' = DOMAIN inflight \cup {Len(dispatches) + 1}
                 /\ stats'.sentToLsp = stats.sentToLsp + 1
                 /\ now' = now
                 /\ ~MapHas(buffer', u)
                 /\ ~MapHas(timers', u)
                 /\ TimersOf(u)' = {}
       /\ DispatchedOnce'
       /\ NeverAfter("flush", "idle")']_vars

\* Two buffered edits were dispatched by a save before any idle window could
\* have elapsed.
C7_Witness ==
    \E u \in FileURIs :
        /\ owner = "SmartDiagnostics"
        /\ hist[u] # << >>
        /\ hist[u][Len(hist[u])].ev = "flush"
        /\ Len(hist[u][Len(hist[u])].ids) = 2
        /\ dispatches # << >>
        /\ dispatches[Len(dispatches)] = hist[u][Len(hist[u])].ids
        /\ now < Epoch + DefaultIdleMs

PosLE(p, q) ==
    \/ p.line < q.line
    \/ (p.line = q.line /\ p.character <= q.character)

Covers(outer, inner) == PosLE(outer.start, inner.start) /\ PosLE(inner.end, outer.end)

\* Every dispatch so far: it was counted once, its affectedRange covers every
\* change range of every edit it took, it took the edits of one hand-out of
\* the buffer, and it shares no edit with another dispatch.
DispatchesSound ==
    /\ stats.sentToLsp = Len(dispatches)
    /\ DOMAIN inflight \subseteq 1..Len(dispatches)
    /\ \A i \in DOMAIN inflight : \A j \in 1..Len(inflight[i].ranges) :
          Covers(inflight[i].affectedRange, inflight[i].ranges[j])
    /\ \A i \in 1..Len(dispatches) :
          \E u \in FileURIs : \E k \in 1..Len(hist[u]) :
              HandOut(hist[u][k]) /\ hist[u][k].ids = dispatches[i]
    /\ DispatchedOnce

PipelineSound == Coalesced /\ DispatchesSound

\* C8: end to end, with the orchestrator enabled and the client running: the
\* significant change events of a file document that arrive within the idle
\* window of each other wait in one entry under one timeout (Coalesced); when
\* the timeout fires there is exactly one new dispatch, of all the events of
\* the entry, and sentToLsp grows by exactly 1; the affectedRange of a
\* dispatch covers every range of every event in it, up to the request.
C8_EndToEnd ==
    /\ []PipelineSound
    /\ [][\A t \in pending :
             (client = "running" /\ t \notin pending' /\ TimerFires(t)) =>
                 LET edits == buffer[t.uri].edits
                     n == Len(dispatches) + 1
                 IN  /\ dispatches' = Append(dispatches, Ids(edits))
                     /\ stats'.sentToLsp = stats.sentToLsp + 1
                     /\ DOMAIN inflight' = DOMAIN inflight \cup {n}
                     /\ inflight'[n].ranges = AllRanges(edits)
                     /\ ~MapHas(buffer', t.uri)
                     /\ TimersOf(t.uri)' = {}]_vars

\* Two change events went out in the one dispatch there was, and the request
\* carries the range that covers both.
C8_Witness ==
    \E u \in FileURIs :
        /\ owner = "SmartDiagnostics"
        /\ hist[u] # << >>
        /\ hist[u][Len(hist[u])].ev = "idle"
        /\ dispatches = << hist[u][Len(hist[u])].ids >>
        /\ Len(dispatches[1]) = 2
        /\ stats.sentToLsp = 1
        /\ MapHas(inflight, 1)
        /\ inflight[1].stage = "request"
        /\ inflight[1].affectedRange = Rng(0, 0, 1, 0)

\* The entries of the histories in which edits were handed out.
HandOuts ==
    UNION {{<< u, k >> : k \in {i \in 1..Len(hist[u]) : HandOut(hist[u][i])}} : u \in URIs}

\* C9: every buffered edit is handed out at most once, to exactly one of the
\* idle callback, a flush return value or a flushAll return value, and no
\* change event is in more than one dispatch; every dispatch consists of the
\* edits of one hand-out.
C9_Deduplication ==
    /\ \A p, q \in HandOuts :
          p # q => Disjoint(hist[p[1]][p[2]].ids, hist[q[1]][q[2]].ids)
    /\ \A p \in HandOuts :
          \A i, j \in 1..Len(hist[p[1]][p[2]].ids) :
              i # j => hist[p[1]][p[2]].ids[i] # hist[p[1]][p[2]].ids[j]
    /\ DispatchedOnce
    /\ \A i \in 1..Len(dispatches) :
          \E p \in HandOuts : hist[p[1]][p[2]].ids = dispatches[i]

\* Edits of one document left through a save and, later ones, through the
\* idle timer, and both hand-outs were dispatched.
C9_Witness ==
    \E u \in FileURIs : \E j, k \in 1..Len(hist[u]) :
        /\ owner = "SmartDiagnostics"
        /\ hist[u][j].ev = "flush"
        /\ hist[u][k].ev = "idle"
        /\ Len(dispatches) = 2

\* C10: a successful reply to a dispatch sets consecutiveFailures to 0,
\* whatever its value before.
C10_SuccessResets ==
    [][\A i \in DOMAIN inflight :
          (inflight[i].stage = "request" /\ RequestResolves(i)) =>
              /\ consecutiveFailures' = 0
              /\ lastReply'.kind = "ok"
              /\ lastReply'.before = consecutiveFailures]_vars

\* A success arrived when the count was above 0.
C10_Witness ==
    /\ lastReply.kind = "ok"
    /\ lastReply.before > 0
    /\ consecutiveFailures = 0

\* The number of requests that have been answered, one way or the other.
Replied == Len(dispatches) - Cardinality(DOMAIN inflight)

\* Every request answered so far has failed.
FreshStreak == streak = Replied

\* C11: on a fresh orchestrator the first and the second failure in a row show
\* no warning, the third shows the only one, and a fourth failure less than
\* the cooldown after it shows no further one.
C11_ThirdFailureWarns ==
    [][(FreshStreak /\ streak' = streak + 1) =>
          /\ streak < 2 => (warnings = << >> /\ warnings' = << >>)
          /\ streak = 2 => (warnings = << >> /\ warnings' = << now >>)
          /\ (streak = 3 /\ now - lastNotificationTime < NOTIFICATION_COOLDOWN_MS)
                => (Len(warnings) = 1 /\ warnings' = warnings)]_vars

C11_Witness ==
    /\ FreshStreak
    /\ streak = 4
    /\ Len(warnings) = 1
    /\ now - warnings[1] < NOTIFICATION_COOLDOWN_MS

\* A request has just been answered with a failure.
Failure == streak' = streak + 1

\* C12: after every handled failure consecutiveFailures is 0, 1 or 2; the
\* failure that would bring it to 3 leaves it at 0, with the warning shown and
\* with the warning suppressed by the cooldown alike.
C12_CountBelowThreshold ==
    /\ [](consecutiveFailures \in 0 .. FAILURE_THRESHOLD - 1)
    /\ [][Failure =>
            /\ consecutiveFailures + 1 < FAILURE_THRESHOLD
                  => consecutiveFailures' = consecutiveFailures + 1
            /\ (consecutiveFailures + 1 = FAILURE_THRESHOLD /\ warnings' # warnings)
                  => consecutiveFailures' = 0
            /\ (consecutiveFailures + 1 = FAILURE_THRESHOLD /\ warnings' = warnings)
                  => consecutiveFailures' = 0]_vars

\* Six failures in a row with one warning: the sixth was suppressed.
C12_Witness ==
    /\ streak = 2 * FAILURE_THRESHOLD
    /\ Len(warnings) = 1
    /\ consecutiveFailures = 0

\* The failure being handled brings the count to the threshold.
Breach == Failure /\ consecutiveFailures + 1 = FAILURE_THRESHOLD

\* C13: a failure that brings the count to 3 at least 60000 ms after the last
\* shown warning shows one warning and sets lastNotificationTime to the
\* current time; less than 60000 ms after it, it shows none and leaves
\* lastNotificationTime as it was.
C13_CooldownElapsed ==
    [][Breach =>
          IF now - lastNotificationTime >= NOTIFICATION_COOLDOWN_MS
          THEN /\ warnings' = Append(warnings, now)
               /\ lastNotificationTime' = now
          ELSE /\ warnings' = warnings
               /\ lastNotificationTime' = lastNotificationTime]_vars

\* C14: any two warnings are at least 60000 ms apart, and a warning is shown
\* only by the handling of a failure that brings the count to 3.
C14_WarningsApart ==
    /\ [](\A i, j \in 1 .. Len(warnings) :
             i < j => warnings[j] - warnings[i] >= NOTIFICATION_COOLDOWN_MS)
    /\ [][warnings' # warnings =>
             /\ Breach
             /\ lastReply'.kind = "failed"
             /\ streak' >= FAILURE_THRESHOLD
             /\ warnings' = Append(warnings, now)]_vars

C14_Witness ==
    /\ Len(warnings) = 2
    /\ lastReply.kind = "failed"
    /\ lastNotificationTime = now

\* The step handed the entry of uri to processEdits: the idle callback ran
\* or a save flushed the entry.
ProcessEditsInvoked(uri) ==
    \E k \in (Len(hist[uri]) + 1)..Len(hist'[uri]) :
        hist'[uri][k].ev \in {"idle", "flush"}

\* C15: processEdits invoked, by an idle firing or by a save, while the client
\* is absent or not running sends no request and leaves sentToLsp,
\* consecutiveFailures and lastNotificationTime as they were.
C15_ClientDown ==
    [][\A u \in FileURIs :
          (client # "running" /\ ProcessEditsInvoked(u)) =>
              /\ dispatches' = dispatches
              /\ inflight' = inflight
              /\ stats'.sentToLsp = stats.sentToLsp
              /\ consecutiveFailures' = consecutiveFailures
              /\ lastNotificationTime' = lastNotificationTime
              /\ warnings' = warnings]_vars

\* Edits handed to processEdits and never dispatched, behind a stopped client
\* with a failure counted and a warning shown.
C15_Witness ==
    /\ client = "stopped"
    /\ consecutiveFailures > 0
    /\ lastNotificationTime > 0
    /\ \E k \in 1..Len(hist[FileA]) :
          /\ hist[FileA][k].ev \in {"idle", "flush"}
          /\ \A d \in 1..Len(dispatches) : Disjoint(dispatches[d], hist[FileA][k].ids)

\* The step is a change event on the document uri.
Changed(uri) == docVersion'[uri] # docVersion[uri]

\* C16: a change event that arrives while the orchestrator is disabled, or for
\* a document whose scheme is not 'file', changes no counter, no buffer entry
\* and no timer.
C16_IgnoredChange ==
    [][\A u \in URIs :
          (Changed(u) /\ (~enabled \/ Scheme(u) # "file")) =>
              /\ stats' = stats
              /\ buffer' = buffer
              /\ timers' = timers
              /\ pending' = pending
              /\ hist' = hist]_vars

\* One event on a document that is not a file and one on a file while
\* disabled, neither counted.
C16_Witness ==
    /\ docVersion[Untitled] > 1
    /\ docVersion[FileA] > 1
    /\ ~enabled
    /\ stats.totalChanges = 0
    /\ buffer = EmptyMap

\* The step filtered the change event out: counted, nothing buffered, no
\* timer touched.
FilteredOut ==
    /\ stats'.filteredOut = stats.filteredOut + 1
    /\ buffer' = buffer
    /\ timers' = timers
    /\ pending' = pending

\* The step appended the changes to the entry of uri and restarted its timer.
Buffered(uri, changes) ==
    /\ stats'.filteredOut = stats.filteredOut
    /\ MapHas(buffer', uri)
    /\ LET old == IF MapHas(buffer, uri) THEN buffer[uri].edits ELSE << >>
           new == buffer'[uri].edits
       IN  /\ Len(new) = Len(old) + 1
           /\ \A i \in 1..Len(old) : new[i] = old[i]
           /\ new[Len(new)].changes = changes
           /\ \A v \in DOMAIN buffer' \ {uri} : MapHas(buffer, v) /\ buffer'[v] = buffer[v]
           /\ \E t \in pending' :
                 /\ pending' = (pending \ TimersOf(uri)) \cup {t}
                 /\ t \notin pending
                 /\ t.uri = uri
                 /\ t.due = now + idleMs
                 /\ timers'[uri] = t.id

\* C17: a change event accepted while enabled on a 'file' document adds 1 to
\* totalChanges, and then either it is not significant, adds 1 to filteredOut,
\* buffers nothing and touches no timer, or it is significant, is appended to
\* the document's entry with the timer restarted, and leaves filteredOut.
C17_AcceptedChange ==
    [][\A u \in FileURIs :
          (Changed(u) /\ enabled) =>
              /\ stats'.totalChanges = stats.totalChanges + 1
              /\ stats'.sentToLsp = stats.sentToLsp
              /\ \A b \in Batches :
                    ChangeEvent(u, b) =>
                        IF classify(filter, b).isSignificant
                        THEN Buffered(u, b) /\ ~FilteredOut
                        ELSE FilteredOut /\ ~Buffered(u, b)]_vars

\* One event filtered out and one buffered.
C17_Witness ==
    /\ stats.totalChanges = 2
    /\ stats.filteredOut = 1
    /\ \E u \in FileURIs : getBufferedEditCount(Cur, u) = 1

\* The batch has a change that classifySingleChange calls k.
Has(changes, k) == \E i \in 1..Len(changes) : changes[i].kind = k

\* C18: a batch with at least one 'code' change is significant under every
\* setting of the three flags; its type is 'mixed' when it also has a comment
\* or a whitespace change, and 'code' otherwise.
C18_CodeIsSignificant ==
    (classified # << >> /\ Has(classified[1].changes, "code")) =>
        /\ classified[1].result.isSignificant
        /\ classified[1].result.changeType =
              IF Has(classified[1].changes, "comment") \/ Has(classified[1].changes, "whitespace")
              THEN "mixed" ELSE "code"

\* A code change next to a formatting change, classified 'code' with every
\* flag set.
C18_Witness ==
    /\ classified # << >>
    /\ Has(classified[1].changes, "code")
    /\ Has(classified[1].changes, "formatting")
    /\ classified[1].config = DefaultFilter
    /\ classified[1].result.changeType = "code"
    /\ classified[1].result.isSignificant

\* The flag that goes with a change type.
FlagOf(type) ==
    CASE type = "comment" -> "ignoreComments"
      [] type = "whitespace" -> "ignoreWhitespace"
      [] type = "formatting" -> "ignoreFormatting"

FlagTypes == {"comment", "whitespace", "formatting"}

\* The classification c is not significant exactly when the flag of its type
\* is set, and the other two flags do not change it.
FlagDecides(c) ==
    c.result.changeType \in FlagTypes =>
        LET flag == FlagOf(c.result.changeType)
        IN  /\ c.result.isSignificant = ~c.config[flag]
            /\ \A g \in [Flags -> BOOLEAN] :
                  g[flag] = c.config[flag] => classify(g, c.changes) = c.result

\* d classifies the batch of c again after updateConfig has cleared only the
\* flag of c's type: d is significant.
FlipDecides(c, d) ==
    (/\ c.result.changeType \in FlagTypes
     /\ d.changes = c.changes
     /\ c.config[FlagOf(c.result.changeType)]
     /\ \A g \in Flags :
           d.config[g] = (c.config[g] /\ g # FlagOf(c.result.changeType)))
      => (~c.result.isSignificant /\ d.result.isSignificant)

\* C19 as stated: for every batch classified whitespace, formatting or
\* comment, isSignificant is false exactly when the flag of that type is true,
\* clearing only that flag with updateConfig makes the same batch
\* significant, and the other two flags have no influence.
C19_FlagDecidesEveryBatch ==
    /\ [](classified # << >> => FlagDecides(classified[1]))
    /\ [][(classified # << >> /\ classified' # << >>)
              => FlipDecides(classified[1], classified'[1])]_vars

\* C19, amended: the same for every batch of at least one change.
C19_FlagDecides ==
    /\ [](classified # << >> /\ Len(classified[1].changes) > 0
             => FlagDecides(classified[1]))
    /\ [][(classified # << >> /\ classified' # << >>
               /\ Len(classified[1].changes) > 0)
              => FlipDecides(classified[1], classified'[1])]_vars

\* A whitespace batch that was not significant, classified again as
\* significant after ignoreWhitespace alone was cleared.
C19_Witness ==
    /\ classified # << >>
    /\ Len(classified[1].changes) > 0
    /\ classified[1].result.changeType = "whitespace"
    /\ classified[1].result.isSignificant
    /\ classified[1].config = [DefaultFilter EXCEPT !.ignoreWhitespace = FALSE]

\* C20: a batch without a code change and with a comment change, whose other
\* changes are whitespace or formatting changes, is classified 'comment' and
\* is significant exactly when ignoreComments is false.
C20_CommentBatch ==
    (/\ classified # << >>
     /\ ~Has(classified[1].changes, "code")
     /\ Has(classified[1].changes, "comment"))
      => /\ classified[1].result.changeType = "comment"
         /\ classified[1].result.isSignificant = ~classified[1].config.ignoreComments

\* C21: classify answers 'formatting' only for a batch whose changes are all
\* formatting changes, and a batch without code and comment changes that has
\* a whitespace and a formatting change is 'mixed' and significant under
\* every setting of the flags.
C21_FormattingOnly ==
    classified # << >> =>
        /\ classified[1].result.changeType = "formatting"
              => \A i \in 1..Len(classified[1].changes) :
                     classified[1].changes[i].kind = "formatting"
        /\ (/\ ~Has(classified[1].changes, "code")
            /\ ~Has(classified[1].changes, "comment")
            /\ Has(classified[1].changes, "whitespace")
            /\ Has(classified[1].changes, "formatting"))
              => (/\ classified[1].result.changeType = "mixed"
                  /\ classified[1].result.isSignificant)

\* C22: in a document whose language has no comment patterns no change is
\* classified 'comment' and classify never answers 'comment', whatever the
\* lines of the document and the inserted text.
C22_NoPatternsNoComment ==
    (classified # << >> /\ mockDocument # << >>
       /\ mockDocument[1].languageId \notin PatternLanguages) =>
        /\ \A i \in 1..Len(classified[1].changes) :
              classified[1].changes[i].kind # "comment"
        /\ classified[1].result.changeType # "comment"

\* A line comment inserted before a line comment in a plain text document,
\* classified as code.
C22_Witness ==
    /\ classified # << >>
    /\ mockDocument # << >>
    /\ mockDocument[1].languageId = "plaintext"
    /\ lineTest("typescript", mockDocument[1].lines[classified[1].text.line])
    /\ ~classified[1].text.whole
    /\ classified[1].text.text = << "//", "x" >>
    /\ classified[1].result.changeType = "code"

\* Line i of doc has a block-comment opener and no closer.
OpensBlock(doc, i) ==
    /\ blockStartSearch(doc.languageId, doc.lines[i]) > 0
    /\ ~blockEndTest(doc.languageId, doc.lines[i])

\* Line j of doc has a block-comment closer.
ClosesBlock(doc, j) == blockEndTest(doc.languageId, doc.lines[j])

\* The last line at or above start that opens a block, 0 if there is none.
NearestOpener(doc, start) ==
    IF \E i \in 1..start : OpensBlock(doc, i)
    THEN CHOOSE i \in 1..start :
             OpensBlock(doc, i) /\ \A k \in (i + 1)..start : ~OpensBlock(doc, k)
    ELSE 0

\* The change c to doc is neither whitespace-only nor formatting-only.
Substantial(doc, c) ==
    /\ ~isWhitespaceOnly(getOldText(doc, c), c.text)
    /\ ~isFormattingOnly(getOldText(doc, c), c.text)

\* The change c to doc, classified kind, is a comment because of an open
\* block: a line at or above it opens a block and no later line up to its own
\* closes one.
OpenBlockRule(doc, c, kind) ==
    (\E i \in 1..c.line :
        /\ OpensBlock(doc, i)
        /\ \A j \in (i + 1)..c.line : ~ClosesBlock(doc, j))
      => kind = "comment"

\* A closer is on a line strictly between the nearest line that opens a
\* block and the line of c.
ClosedAbove(doc, c) ==
    /\ NearestOpener(doc, c.line) > 0
    /\ \E j \in (NearestOpener(doc, c.line) + 1)..(c.line - 1) : ClosesBlock(doc, j)

\* The block rule did not make the change a comment: if it is one, the line
\* is a line comment or the inserted text is a comment.
NotByBlock(doc, c, kind) ==
    kind = "comment" => (\/ lineTest(doc.languageId, doc.lines[c.line])
                         \/ isCommentText(doc.languageId, c.text))

\* Line i has an opener with no closer after it on the line.
ReopensBlock(doc, i) ==
    LET at == blockStartSearch(doc.languageId, doc.lines[i])
    IN  /\ at > 0
        /\ ~blockEndTest(doc.languageId, SubSeq(doc.lines[i], at, Len(doc.lines[i])))

\* C23: a change that is neither whitespace-only nor formatting-only, in a
\* language with patterns, is classified 'comment' when a line at or above
\* its start line has an opener and no closer and no later line up to the
\* start line has a closer; when a closer is on a line strictly between the
\* nearest such opener and the start line, the block rule does not make it a
\* comment.
C23_BlockRuleAsStated ==
    (/\ classified # << >> /\ mockDocument # << >>
     /\ mockDocument[1].languageId \in PatternLanguages
     /\ Substantial(mockDocument[1], classified[1].text)) =>
        LET doc == mockDocument[1]
            c == classified[1].text
            kind == classified[1].changes[1].kind
        IN  /\ OpenBlockRule(doc, c, kind)
            /\ ClosedAbove(doc, c) => NotByBlock(doc, c, kind)

\* C23, amended: the same, the second part for a start line that has no
\* opener left unclosed on the line itself.
C23_BlockRule ==
    (/\ classified # << >> /\ mockDocument # << >>
     /\ mockDocument[1].languageId \in PatternLanguages
     /\ Substantial(mockDocument[1], classified[1].text)) =>
        LET doc == mockDocument[1]
            c == classified[1].text
            kind == classified[1].changes[1].kind
        IN  /\ OpenBlockRule(doc, c, kind)
            /\ (ClosedAbove(doc, c) /\ ~ReopensBlock(doc, c.line))
                  => NotByBlock(doc, c, kind)

\* Code inserted two lines below an opener that nothing closed: a comment.
C23_Witness ==
    /\ classified # << >>
    /\ mockDocument # << >>
    /\ mockDocument[1].languageId = "typescript"
    /\ Len(mockDocument[1].lines) = 3
    /\ OpensBlock(mockDocument[1], 1)
    /\ ~ClosesBlock(mockDocument[1], 2)
    /\ mockDocument[1].lines[3] = << "x" >>
    /\ classified[1].text = [line |-> 3, whole |-> FALSE, text |-> << "x" >>]
    /\ classified[1].changes[1].kind = "comment"

\* ------------------------------------------------------------------ C24

\* The changes of all edits, in order.
RECURSIVE AllChanges(_)
AllChanges(edits) ==
    IF edits = << >> THEN << >> ELSE Head(edits).changes \o AllChanges(Tail(edits))

\* Position p is at or before position q, by line, then by character.
AtOrBefore(p, q) ==
    p.line < q.line \/ (p.line = q.line /\ p.character <= q.character)

\* r is the least start and the greatest end of the ranges of changes, and
\* (0,0)-(0,0) when there are none.
IsExtent(r, changes) ==
    IF changes = << >> THEN r = Rng(0, 0, 0, 0)
    ELSE LET I == 1..Len(changes)
         IN  /\ \E i \in I : r.start = changes[i].range.start
             /\ \A i \in I : AtOrBefore(r.start, changes[i].range.start)
             /\ \E i \in I : r.end = changes[i].range.end
             /\ \A i \in I : AtOrBefore(changes[i].range.end, r.end)

\* C24: getCombinedRange(edits) is the least start and the greatest end, by
\* line and then by character, over all change ranges of all edits; it is the
\* affectedRange that ChangeFilter.classify computes for the same changes; and
\* it is (0,0)-(0,0) for no edits and for edits without changes.
C24_CombinedRange ==
    combined # << >> =>
        LET changes == AllChanges(combined[1].edits)
        IN  /\ IsExtent(combined[1].range, changes)
            /\ combined[1].range = classify(filter, changes).affectedRange

\* Two edits, three changes; the least start (0,0) and the greatest end
\* (1,1) come from different edits and win on the character alone.
C24_Witness ==
    /\ combined # << >>
    /\ Len(combined[1].edits) = 2
    /\ combined[1].edits[1].changes
          = << createMockChangeEvent(Rng(0, 1, 1, 0)), createMockChangeEvent(Rng(1, 0, 1, 1)) >>
    /\ combined[1].edits[2].changes = << createMockChangeEvent(Rng(0, 0, 0, 1)) >>
    /\ combined[1].range = Rng(0, 0, 1, 1)

\* An edit list whose edits carry no change at all combines to (0,0)-(0,0).
C24_WitnessNoChanges ==
    /\ combined # << >>
    /\ Len(combined[1].edits) = 2
    /\ AllChanges(combined[1].edits) = << >>
    /\ combined[1].range = Rng(0, 0, 0, 0)

\* ------------------------------------------------------------------ C25

\* C25: the cache holds at most its configured capacity after any sequence
\* of get, set, delete and clear, whatever the capacity; a set of a new key on
\* a full cache removes exactly one entry before inserting; a set of a
\* present key replaces its value without changing the size or evicting
\* another key.
C25_Capacity ==
    /\ lruSize(cache) <= maxSize
    /\ \A i \in 1..Len(lastCall) :
          LET call == lastCall[i]
              isNew == ~lruHas(call.before, call.key)
              full == lruSize(call.before) >= maxSize
              gone == KeysOf(call.before) \ KeysOf(cache)
          IN  call.op = "set" =>
                /\ OrderedGet(cache, call.key) = << call.value >>
                /\ (isNew /\ full) => (Cardinality(gone) = 1
                                         /\ lruSize(cache) = lruSize(call.before))
                /\ ~isNew => (gone = {} /\ lruSize(cache) = lruSize(call.before))

\* The same for caches built with a capacity of one or more.
C25_PositiveCapacity == maxSize >= 1 => C25_Capacity

\* ------------------------------------------------------------------ C26

\* The keys the last call removed from the cache.
Gone(call) == KeysOf(call.before) \ KeysOf(cache)

\* C26: eviction is strict least-recently-used over reads and writes: the
\* key a set evicts is the present key whose most recent successful get or
\* set is the oldest; no other call removes a key it was not asked to.
C26_StrictLRU ==
    \A i \in 1..Len(lastCall) :
        LET call == lastCall[i]
        IN  /\ (call.op = "set" /\ Gone(call) # {}) => Gone(call) = {Head(call.order)}
            /\ call.op = "get" => Gone(call) = {}
            /\ call.op = "delete" => Gone(call) \subseteq {call.key}
            /\ call.op = "get" => call.result = OrderedGet(call.before, call.key)

\* Capacity 3: a, b, c were set and a was read since; the set of d evicts b.
C26_Witness ==
    /\ maxSize = 3
    /\ lastCall # << >>
    /\ lastCall[1].op = "set"
    /\ lastCall[1].key = "d"
    /\ [i \in 1..Len(lastCall[1].before) |-> lastCall[1].before[i].key] = << "b", "c", "a" >>
    /\ lastCall[1].order = << "b", "c", "a" >>
    /\ KeysOf(cache) = {"c", "a", "d"}

\* ------------------------------------------------------------------ C27

\* C27: a call uses the cached outline, without calling the provider, if and
\* only if the cache holds an entry for the URI whose version is the
\* document's; otherwise the provider is called, and an outline it returns
\* replaces the entry, tagged with the version of the document.
C27_CacheHit ==
    \A i \in 1..Len(lookups) :
        LET call == lookups[i]
            fresh == call.cached # << >> /\ call.cached[1].version = call.version
        IN  /\ ~call.called <=> fresh
            /\ ~call.called => call.symbols = << call.cached[1].symbols >>
            /\ (call.called /\ call.outcome.kind = "symbols") =>
                  /\ call.stored = << [symbols |-> call.outcome.symbols,
                                       version |-> call.tag] >>
                  /\ call.symbols = << call.outcome.symbols >>

\* A call stored the outline under version 1, the document was edited, and
\* the next call found the entry of version 1, called the provider and stored
\* what it returned under version 2.
C27_Witness ==
    /\ Len(lookups) = 2
    /\ lookups[1].uri = lookups[2].uri
    /\ lookups[1].called
    /\ lookups[1].stored # << >>
    /\ lookups[2].cached = lookups[1].stored
    /\ lookups[2].cached[1].version < lookups[2].version
    /\ lookups[2].called
    /\ lookups[2].outcome.kind = "symbols"
    /\ lookups[2].stored[1].version = lookups[2].version
    /\ lookups[2].stored[1].symbols # lookups[2].cached[1].symbols

\* A call used the entry the call before it had stored.
C27_WitnessHit ==
    /\ Len(lookups) = 2
    /\ lookups[1].called
    /\ lookups[1].stored # << >>
    /\ ~lookups[2].called
    /\ lookups[2].cached = lookups[1].stored

\* ------------------------------------------------------------------ C28

\* All symbols of an outline, at every depth.
RECURSIVE AllSymbols(_)
AllSymbols(symbols) ==
    IF symbols = << >> THEN {}
    ELSE {Head(symbols)} \cup AllSymbols(Head(symbols).children)
                         \cup AllSymbols(Tail(symbols))

Descendants(n) == AllSymbols(n.children)

\* The symbol's range contains what the call asked for.
Holds(n, query) ==
    IF query.op = "position" THEN containsPosition(n.range, query.at)
    ELSE containsRange(n.range, query.at)

\* The symbols of the outline that an EditScope describes.
Returned(outline, scope) ==
    {n \in AllSymbols(outline) :
        n.name = scope.name /\ n.range = scope.range /\ n.kind = scope.symbolKind}

\* The calls the provider answered with an outline.
Answered == {i \in 1..Len(lookups) : lookups[i].outcome.kind = "symbols"}

Relevant == {"Function", "Method", "Class", "Constructor", "Module", "Namespace",
             "Interface", "Struct"}

\* scope is the most specific match for the query in the outline: one of its
\* symbols, of relevant kind, that contains the query and has no descendant
\* of relevant kind that does.
MostSpecific(outline, query, scope) ==
    \E n \in Returned(outline, scope) :
        /\ n.kind \in Relevant
        /\ Holds(n, query)
        /\ \A d \in Descendants(n) : ~(Holds(d, query) /\ d.kind \in Relevant)

\* C28: for an outline with well-nested ranges, getEnclosingScope and
\* getEnclosingScopeForRange return the most specific match: a symbol of
\* relevant kind whose range contains the query and none of whose descendants
\* that contain the query is of relevant kind; and they return one whenever
\* a symbol of relevant kind contains the query.
C28_MostSpecific ==
    \A i \in Answered :
        LET call == lookups[i]
            outline == call.outcome.symbols
        IN  /\ call.scope # << >> => MostSpecific(outline, call.query, call.scope[1])
            /\ call.scope = << >> =>
                  \A n \in AllSymbols(outline) : ~(Holds(n, call.query) /\ n.kind \in Relevant)

\* A position inside a method nested in a class yields the method.
C28_Witness ==
    /\ Answered = {1}
    /\ lookups[1].query = [op |-> "position", at |-> Pos(2, 0)]
    /\ Len(lookups[1].outcome.symbols) = 1
    /\ lookups[1].outcome.symbols[1].kind = "Class"
    /\ Len(lookups[1].outcome.symbols[1].children) = 1
    /\ lookups[1].outcome.symbols[1].children[1].kind = "Method"
    /\ lookups[1].scope # << >>
    /\ lookups[1].scope[1].name = "Inner"
    /\ lookups[1].scope[1].kind = "method"
    /\ lookups[1].scope[1].className = << "Outer" >>

\* ------------------------------------------------------------------ C29

ClassLike == {"Class", "Struct", "Interface"}

\* The class-like symbols that have m among their descendants and whose
\* range contains the range of m.
ClassAncestors(outline, m) ==
    {a \in AllSymbols(outline) :
        a.kind \in ClassLike /\ m \in Descendants(a) /\ containsRange(a.range, m.range)}

\* The name of the innermost of them, if there is one.
NearestClassName(outline, m) ==
    LET A == ClassAncestors(outline, m)
    IN  IF A = {} THEN << >>
        ELSE << (CHOOSE a \in A : \A b \in A : b = a \/ a \in Descendants(b)).name >>

\* C29: for a result of kind 'method', className is the name of the nearest
\* (innermost) class-like ancestor whose range contains the method's range,
\* and undefined if no class-like symbol contains the method.
C29_NearestClass ==
    \A i \in Answered :
        LET call == lookups[i]
            outline == call.outcome.symbols
        IN  (call.scope # << >> /\ call.scope[1].kind = "method") =>
                \A m \in Returned(outline, call.scope[1]) :
                    call.scope[1].className = NearestClassName(outline, m)

\* The same where the method has at most one class-like ancestor.
C29_OnlyClass ==
    \A i \in Answered :
        LET call == lookups[i]
            outline == call.outcome.symbols
        IN  (call.scope # << >> /\ call.scope[1].kind = "method") =>
                \A m \in Returned(outline, call.scope[1]) :
                    Cardinality(ClassAncestors(outline, m)) <= 1 =>
                        call.scope[1].className = NearestClassName(outline, m)

\* ------------------------------------------------------------------ C30

\* The innermost symbols of the outline that contain the query.
Innermost(outline, query) ==
    {n \in AllSymbols(outline) :
        Holds(n, query) /\ \A d \in Descendants(n) : ~Holds(d, query)}

\* C30 as stated: if the innermost symbol containing the query is of a
\* non-relevant kind, the lookup yields undefined.
C30_SkippedYieldsUndefined ==
    \A i \in Answered :
        LET call == lookups[i]
            outline == call.outcome.symbols
        IN  (\E n \in Innermost(outline, call.query) : n.kind \notin Relevant)
                => call.scope = << >>

\* C30, amended: if the innermost symbol containing the query is of a
\* non-relevant kind, it is skipped: the lookup yields the nearest symbol of
\* relevant kind among its ancestors, and undefined if it has none.
C30_Skipped ==
    \A i \in Answered :
        LET call == lookups[i]
            outline == call.outcome.symbols
        IN  \A n \in Innermost(outline, call.query) :
                n.kind \notin Relevant =>
                    LET up == {a \in AllSymbols(outline) :
                                  n \in Descendants(a) /\ a.kind \in Relevant}
                    IN  IF up = {} THEN call.scope = << >>
                        ELSE /\ call.scope # << >>
                             /\ \E a \in up \cap Returned(outline, call.scope[1]) :
                                    \A b \in up : b = a \/ a \in Descendants(b)

\* A position inside a variable of a function: the variable is skipped and
\* the function is the scope.
C30_Witness ==
    /\ Answered = {1}
    /\ lookups[1].query = [op |-> "position", at |-> Pos(2, 0)]
    /\ Len(lookups[1].outcome.symbols) = 1
    /\ lookups[1].outcome.symbols[1].kind = "Function"
    /\ Len(lookups[1].outcome.symbols[1].children) = 1
    /\ lookups[1].outcome.symbols[1].children[1].kind = "Variable"
    /\ lookups[1].outcome.symbols[1].children[1].children = << >>
    /\ lookups[1].scope # << >>
    /\ lookups[1].scope[1].name = "Outer"
    /\ lookups[1].scope[1].kind = "function"

\* A position inside a variable that nothing encloses: undefined.
C30_WitnessUndefined ==
    /\ Answered = {1}
    /\ lookups[1].query = [op |-> "position", at |-> Pos(1, 0)]
    /\ Len(lookups[1].outcome.symbols) = 1
    /\ lookups[1].outcome.symbols[1].kind = "Variable"
    /\ lookups[1].outcome.symbols[1].children = << >>
    /\ lookups[1].scope = << >>

\* ------------------------------------------------------------------ C31

\* The step handed edits of uri out of the buffer.
HandedOut(uri) ==
    /\ Len(hist'[uri]) = Len(hist[uri]) + 1
    /\ HandOut(hist'[uri][Len(hist'[uri])])

\* The i-th scope lookup asked the outline provider, which threw.
FetchFailed(i) == lookups[i].called /\ lookups[i].outcome.kind = "throws"

\* C31: a failing outline fetch is swallowed: the scope lookup resolves to
\* undefined instead of rejecting, and the flush it belongs to still has
\* exactly one dispatch, whose request goes out with no scope and with the
\* affected range of its edits.
C31_FetchFailureSwallowed ==
    /\ [](/\ Len(lookups) = Len(dispatches)
          /\ DispatchesSound
          /\ \A i \in 1..Len(lookups) :
                /\ lookups[i].uri = inflight[i].document
                /\ lookups[i].query = [op |-> "range", at |-> inflight[i].affectedRange]
                /\ FetchFailed(i) =>
                      /\ lookups[i].stage = "done"
                      /\ lookups[i].scope = << >>
                      /\ inflight[i].stage = "request"
                      /\ inflight[i].scope = None
                      /\ inflight[i].ranges # << >>
                      /\ \A j \in 1..Len(inflight[i].ranges) :
                            Covers(inflight[i].affectedRange, inflight[i].ranges[j]))
    /\ [][\A u \in FileURIs :
             (client = "running" /\ HandedOut(u)) =>
                 /\ dispatches' = Append(dispatches, hist'[u][Len(hist'[u])].ids)
                 /\ stats'.sentToLsp = stats.sentToLsp + 1]_vars

\* The outline provider threw for the lookup of a dispatch of two edits, and
\* the request of that dispatch is out without a scope.
C31_Witness ==
    \E i \in 1..Len(lookups) :
        /\ owner = "SmartDiagnostics"
        /\ FetchFailed(i)
        /\ Len(dispatches[i]) = 2
        /\ MapHas(inflight, i)
        /\ inflight[i].stage = "request"
        /\ inflight[i].scope = None

\* ------------------------------------------------------------------ C32

\* C32: no orphaned buffers: between the operations of an EditBuffer
\* (addEdit, flush, flushAll, a timeout firing, dispose, callbacks that throw
\* or re-enter included) a URI has an entry in the buffer if and only if it
\* has exactly one pending timeout, the one whose handle the buffer keeps for
\* it, and every entry holds at least one edit.
C32_NoOrphans ==
    \A u \in URIs :
        /\ MapHas(buffer, u) <=> Cardinality(TimersOf(u)) = 1
        /\ MapHas(buffer, u) <=> MapHas(timers, u)
        /\ ~MapHas(buffer, u) => TimersOf(u) = {}
        /\ MapHas(timers, u) => \E t \in TimersOf(u) : t.id = timers[u]
        /\ MapHas(buffer, u) => Len(buffer[u].edits) >= 1

\* A callback re-entered the buffer, which then holds the one edit the
\* callback added, under the one timeout armed for it.
C32_Witness ==
    \E u \in FileURIs :
        /\ owner = "test"
        /\ hist[u] # << >>
        /\ \E k \in 1..Len(hist[u]) : hist[u][k].ev = "idle" /\ hist[u][k].reentered # 0
        /\ MapHas(buffer, u)
        /\ Len(buffer[u].edits) = 1
        /\ Cardinality(TimersOf(u)) = 1

\* ------------------------------------------------------------------ C33

\* uri is idle: no entry, no handle, no armed timeout.
IdleState(uri) == ~MapHas(buffer, uri) /\ ~MapHas(timers, uri) /\ TimersOf(uri) = {}

\* Every edit that has left the buffer of uri left it in a hand-out.
LeftInHandOut(uri) ==
    \A k \in 1..Len(hist[uri]) : Removal(hist[uri][k]) => HandOut(hist[uri][k])

\* The step took the entry of uri out of the buffer.
EntryRemoved(uri) == MapHas(buffer, uri) /\ Len(hist'[uri]) > Len(hist[uri])
                        /\ Removal(hist'[uri][Len(hist[uri]) + 1])

\* C33 as stated: in a buffer that is not disposed, once no further addEdit
\* arrives for a URI, the URI's buffered edits are eventually handed out, to
\* the idle callback or as the result of flush or flushAll, and the URI is
\* idle again, with no entry and no timeout: edits leave the buffer in a
\* hand-out only, and no URI stays busy for ever.
C33_EventuallyHandedOut ==
    /\ [](\A u \in FileURIs : LeftInHandOut(u))
    /\ <>[](\A u \in FileURIs : IdleState(u))

\* C33, amended: the URI's buffered edits eventually leave the buffer and the
\* URI is idle again; they leave as the result of flush or flushAll, or when
\* their timeout fires, and then they are handed to the idle callback if one
\* is registered at that moment and dropped if none is.
C33_Debounce ==
    /\ [][\A u \in FileURIs :
             EntryRemoved(u) =>
                 LET e == hist'[u][Len(hist[u]) + 1]
                 IN  /\ e.ids = Ids(buffer[u].edits)
                     /\ HandOut(e) \/ (e.ev = "unheard" /\ idleCallback = None)
                     /\ (e.ev \in {"idle", "unheard"}) =>
                           \E t \in pending : t \notin pending' /\ t.uri = u /\ t.due <= now]_vars
    /\ <>[](\A u \in FileURIs : IdleState(u) /\ Since(hist[u]) = << >>)

\* A burst of two edits that began at the last hour the clock strikes was
\* handed to the callback when its timeout came due, and the URI is idle.
C33_Witness ==
    \E u \in FileURIs :
        /\ owner = "test"
        /\ hist[u] # << >>
        /\ hist[u][Len(hist[u])].ev = "idle"
        /\ Len(hist[u][Len(hist[u])].ids) = 2
        /\ IdleState(u)
        /\ now > Epoch + MaxTicks * TickMs

\* ------------------------------------------------------------------ C34

\* The step left what the buffer holds for uri as it was: the entry with its
\* edits in their order, the handle, and the armed timeout with its deadline.
Untouched(uri) ==
    /\ MapHas(buffer', uri) <=> MapHas(buffer, uri)
    /\ MapHas(buffer, uri) => buffer'[uri] = buffer[uri]
    /\ MapHas(timers', uri) <=> MapHas(timers, uri)
    /\ MapHas(timers, uri) => timers'[uri] = timers[uri]
    /\ TimersOf(uri)' = TimersOf(uri)
    /\ hist'[uri] = hist[uri]

\* C34: documents are independent: addEdit, flush and the firing of the idle
\* timeout for one URI leave the entry (its edits and their order) and the
\* deadline of the armed timeout of every other URI unchanged.
C34_CrossDocument ==
    [][\A a \in URIs :
          (\/ \E b \in TestBatches : TestAddEdit(a, b)
           \/ TestFlush(a)
           \/ \E t \in pending : t.uri = a /\ TimerFires(t)) =>
              \A other \in URIs \ {a} : Untouched(other)]_vars

\* An edit of one document waits under its timeout while the edits of another
\* document, added after it, have been handed out by a timeout or a flush.
C34_Witness ==
    \E a, other \in FileURIs :
        /\ owner = "test"
        /\ a # other
        /\ hist[a] # << >>
        /\ hist[a][Len(hist[a])].ev \in {"idle", "flush"}
        /\ MapHas(buffer, other)
        /\ Cardinality(TimersOf(other)) = 1
        /\ buffer[other].edits[1].id < hist[a][Len(hist[a])].ids[1]

\* ------------------------------------------------------------------ C35

\* The step started the dispatch of the edits buffered for uri, while the
\* suspended call i stayed as it was.
StartsBeside(uri, i) ==
    /\ dispatches' = Append(dispatches, Ids(buffer[uri].edits))
    /\ DOMAIN inflight' = DOMAIN inflight \cup {Len(dispatches) + 1}
    /\ inflight'[Len(dispatches) + 1].document = uri
    /\ inflight'[Len(dispatches) + 1].stage = "scope"
    /\ inflight'[i] = inflight[i]
    /\ ~MapHas(buffer', uri)

\* C35: a dispatch that is slow or never answered blocks nothing: while
\* processEdits for one document is suspended at its scope lookup or at its
\* request, a save or an idle firing for another document starts that
\* document's dispatch, the other dispatch's request goes out when its scope
\* lookup is over, and change events of any document are counted and buffered
\* as ever; the suspended call is left as it is.
C35_NoBlocking ==
    [][\A i \in DOMAIN inflight :
          /\ \A b \in FileURIs \ {inflight[i].document} :
                /\ (enabled /\ client = "running" /\ hasBufferedEdits(Cur, b)
                       /\ SaveEvent(b)) => StartsBeside(b, i)
                /\ \A t \in pending :
                      (client = "running" /\ t.uri = b /\ t \notin pending'
                          /\ TimerFires(t)) => StartsBeside(b, i)
                /\ \A j \in DOMAIN inflight :
                      (inflight[j].document = b /\ inflight[j].stage = "scope"
                          /\ \E o \in ScopeOutcomes : ScopeSettles(j, o)) =>
                             /\ MapHas(inflight', j)
                             /\ inflight'[j].stage = "request"
                             /\ inflight'[j].version = docVersion[b]
                             /\ inflight'[i] = inflight[i]
          /\ \A u \in FileURIs : \A batch \in Batches :
                (enabled /\ docVersion'[u] # docVersion[u] /\ ChangeEvent(u, batch)) =>
                    /\ stats'.totalChanges = stats.totalChanges + 1
                    /\ classify(filter, batch).isSignificant =>
                          /\ MapHas(buffer', u)
                          /\ Len(buffer'[u].edits) = getBufferedEditCount(Cur, u) + 1
                    /\ inflight' = inflight]_vars

\* The request of the second document is out, or already answered, while the
\* dispatch of the first document, started before it, still waits for its
\* scope.
C35_Witness ==
    /\ owner = "SmartDiagnostics"
    /\ Len(dispatches) = 2
    /\ MapHas(inflight, 1)
    /\ inflight[1].stage = "scope"
    /\ \/ ~MapHas(inflight, 2)
       \/ inflight[2].stage = "request" /\ inflight[2].document # inflight[1].document

\* The second document's request was answered while the first document's
\* dispatch, started before it, has had no answer.
C35_WitnessAnswered ==
    /\ owner = "SmartDiagnostics"
    /\ Len(dispatches) = 2
    /\ MapHas(inflight, 1)
    /\ ~MapHas(inflight, 2)
    /\ lastReply.kind = "ok"
    /\ \E u \in FileURIs : hist[u] # << >> /\ inflight[1].document # u
                             /\ HandOut(hist[u][Len(hist[u])])
                             /\ hist[u][Len(hist[u])].ids = dispatches[2]

\* ------------------------------------------------------------------ C36

\* C36: every entry of the cache pairs an outline with the version the
\* document had when the fetch of that outline was issued, also when the
\* document is edited while the fetch is in flight; so a lookup at version v
\* never returns an outline that was requested for another version.
C36_TaggedAtIssue ==
    \A i \in 1..Len(lookups) :
        LET call == lookups[i]
        IN  /\ (call.called /\ call.outcome.kind = "symbols" /\ call.stored # << >>) =>
                  call.stored[1].version = call.version
            /\ (call.stage = "done" /\ ~call.called) =>
                  \A j \in 1..Len(lookups) :
                      (/\ lookups[j].called
                       /\ lookups[j].uri = call.uri
                       /\ lookups[j].outcome.kind = "symbols"
                       /\ lookups[j].stored = call.cached) =>
                          lookups[j].version = call.version

\* ------------------------------------------------------------------ C37

\* C37: once the orchestrator is disabled through updateConfig({enabled:
\* false}), no dispatch is started until it is enabled again, also when
\* significant edits were waiting under a running idle timeout at the moment
\* it was disabled.
C37_DisabledStartsNothing ==
    [][~enabled => /\ dispatches' = dispatches
                   /\ stats'.sentToLsp = stats.sentToLsp
                   /\ DOMAIN inflight' \subseteq DOMAIN inflight]_vars

\* ------------------------------------------------------------------ C38

\* The step brought the answer to request i.
Completed(i) == inflight[i].stage = "request" /\ ~MapHas(inflight', i)

\* C38: with several dispatches in flight at once, consecutiveFailures is the
\* number of failed completions since the last successful completion or the
\* last reset at the threshold, counted in the order the answers arrive and
\* not in the order the requests were issued: a late success of a request
\* issued earlier resets the count like any other success.
C38_CompletionOrder ==
    /\ [](consecutiveFailures = streak % FAILURE_THRESHOLD)
    /\ [][\A i \in DOMAIN inflight :
             Completed(i) =>
                 /\ lastReply'.index = i
                 /\ lastReply'.kind = "ok" => (consecutiveFailures' = 0 /\ streak' = 0)
                 /\ lastReply'.kind = "failed" =>
                       /\ streak' = streak + 1
                       /\ consecutiveFailures' =
                             (consecutiveFailures + 1) % FAILURE_THRESHOLD]_vars

\* Of three requests the second failed, and then the first, issued before
\* it, succeeded and reset the count, while the third is still out.
C38_Witness ==
    /\ owner = "SmartDiagnostics"
    /\ Len(dispatches) = 3
    /\ DOMAIN inflight = {3}
    /\ lastReply = [kind |-> "ok", before |-> 1, index |-> 1]
    /\ consecutiveFailures = 0

\* Three requests were out at once; the third was answered first, with a
\* failure, and the first failed after it: the count is 2.
C38_WitnessOutOfOrder ==
    /\ owner = "SmartDiagnostics"
    /\ Len(dispatches) = 3
    /\ DOMAIN inflight = {2}
    /\ inflight[2].stage = "request"
    /\ lastReply = [kind |-> "failed", before |-> 1, index |-> 1]
    /\ consecutiveFailures = 2

\* ------------------------------------------------------------------ C39

\* The edits the step handed to processEdits for uri.
HandedToProcessEdits(uri) ==
    UNION {{hist'[uri][k].ids[n] : n \in 1..Len(hist'[uri][k].ids)} :
              k \in {j \in (Len(hist[uri]) + 1)..Len(hist'[uri]) :
                        hist'[uri][j].ev \in {"idle", "flush"}}}

\* C39: edits flushed, by an idle firing or by a save, while the client is
\* absent or not running are discarded: the document has no entry and no
\* timeout afterwards, an entry comes back only with a new change event, and
\* the discarded edits are in no dispatch from then on, also once the client
\* is running.
C39_DiscardedForGood ==
    /\ [](/\ \A i \in 1..Len(dispatches) : \A n \in 1..Len(dispatches[i]) :
                dispatches[i][n] \notin skipped
          /\ \A u \in DOMAIN buffer : \A n \in 1..Len(buffer[u].edits) :
                buffer[u].edits[n].id \notin skipped)
    /\ [][\A u \in FileURIs :
             /\ (client # "running" /\ ProcessEditsInvoked(u)) =>
                   /\ skipped' = skipped \cup HandedToProcessEdits(u)
                   /\ HandedToProcessEdits(u) # {}
                   /\ dispatches' = dispatches
                   /\ ~MapHas(buffer', u)
                   /\ ~MapHas(timers', u)
                   /\ TimersOf(u)' = {}
             /\ (MapHas(buffer', u) /\ ~MapHas(buffer, u)) => Changed(u)]_vars

\* An edit was flushed while the client was not running; the client runs
\* now, and a later edit of the same document has been dispatched without it.
C39_Witness ==
    \E u \in FileURIs : \E j, k \in 1..Len(hist[u]) :
        /\ owner = "SmartDiagnostics"
        /\ client = "running"
        /\ j < k
        /\ hist[u][j].ev \in {"idle", "flush"}
        /\ hist[u][j].ids[1] \in skipped
        /\ hist[u][k].ev \in {"idle", "flush"}
        /\ dispatches = << hist[u][k].ids >>

\* ------------------------------------------------------------------ C40

\* C40 as stated: in every reachable state of the orchestrator, under any
\* sequence of onDocumentChange, onDocumentSave, idle firings, updateConfig
\* and resetStats, filteredOut + sentToLsp <= totalChanges.
C40_StatsConsistent == stats.filteredOut + stats.sentToLsp <= stats.totalChanges

\* The counted events that were neither filtered out nor dispatched, less the
\* documents whose edits still wait in the buffer.
Slack == stats.totalChanges - stats.filteredOut - stats.sentToLsp
             - Cardinality(DOMAIN buffer)

\* C40, amended: resetStats sets the three counters to 0 and leaves the
\* buffer alone; every other step keeps or raises the number of counted
\* events that are neither filtered out, nor dispatched, nor waiting as some
\* document's entry.  So filteredOut + sentToLsp <= totalChanges holds until
\* resetStats is called, and from then on it can fail by at most the number
\* of documents that had edits waiting at that call.
C40_StatsSlack ==
    [][IF stats' # stats /\ ResetStats
       THEN /\ stats' = [totalChanges |-> 0, filteredOut |-> 0, sentToLsp |-> 0]
            /\ buffer' = buffer
            /\ pending' = pending
       ELSE /\ Slack' >= Slack
            /\ stats'.totalChanges >= stats.totalChanges
            /\ stats'.filteredOut >= stats.filteredOut
            /\ stats'.sentToLsp >= stats.sentToLsp]_vars

\* The counters were reset while an edit waited, and the edit was dispatched
\* afterwards: one dispatch counted against no change.
C40_Witness ==
    /\ owner = "SmartDiagnostics"
    /\ Len(dispatches) = 1
    /\ stats = [totalChanges |-> 0, filteredOut |-> 0, sentToLsp |-> 1]

\* The same inequality where the counters are never reset.
C40_WithoutReset == C40_StatsConsistent /\ Slack >= 0

====
